---- MODULE Spec2Model ----
(***************************************************************************)
(* A model of the forex arbitrage bot: the cycle finder                    *)
(* (src/strategies/arbitrage.py), the performance ledger                   *)
(* (src/utils/performance.py) and the trader's control loop, circuit       *)
(* breakers and execution engine (src/trader.py).                          *)
(*                                                                         *)
(* Python floats are modelled as exact rationals <<n, d>> with d > 0, in   *)
(* lowest terms, so that equal numbers are equal values.                   *)
(***************************************************************************)
EXTENDS Integers, Sequences, FiniteSets, TLC

VARIABLES
    \* ---- find_profitable_cycles: one call (arguments, position, result)
    exchange_rates,       \* rate book: pair -> quote data (self.exchange_rates)
    effective_rates,      \* effective-rate book: pair -> rate (self.effective_rates)
    fetched,              \* results, the local list of the last snapshot
    start_currency,
    max_cycle_length,
    min_profit,
    profitable_cycles,    \* the returned list
    fpc_pc,               \* "call" before the call, "done" after it
    \* ---- OandaArbitrageTrader: the fields of one trader
    consecutive_losses,
    starting_balance,
    self_daily_loss_limit, \* self.daily_loss_limit
    valid_pairs,          \* self.valid_pairs, the catalog as a list of pairs
    self_volatility_window, \* self.volatility_window
    pool,                 \* the thread pool of a snapshot in progress
    trades,               \* self.performance.trades, the ledger
    rate_history,         \* pair -> the most recent mids
    market_session,
    utc_hour,             \* datetime.utcnow().hour of the last session adjustment
    min_profit_threshold,
    self_check_interval,  \* self.check_interval, set by the session adjustment
    trade_lock,           \* the loop holding self.trade_lock, or Free
    opp_age,              \* seconds since self.last_opportunity_time, or Never
    \* ---- run(): its arguments and, per control loop, its locals
    demo_mode,
    max_runtime,
    elapsed,              \* seconds since start_time (read only against max_runtime)
    loop,                 \* loop id -> [pc, best_cycle, position_size, ...]
    saved                 \* number of save_data calls
    
fpc_vars == <<start_currency, max_cycle_length, min_profit, profitable_cycles, fpc_pc>>

book_vars == <<exchange_rates, effective_rates, fetched>>

trader_vars == <<consecutive_losses, starting_balance, self_daily_loss_limit,
                 valid_pairs, self_volatility_window, pool, trades, rate_history,
                 market_session, utc_hour, min_profit_threshold,
                 self_check_interval, trade_lock, opp_age, demo_mode, max_runtime,
                 elapsed, loop, saved>>

vars == <<book_vars, fpc_vars, trader_vars>>

(***************************************************************************)
(* Exact rational arithmetic (the floats of the source).                   *)
(***************************************************************************)
Abs(x) == IF x < 0 THEN -x ELSE x

RECURSIVE Gcd(_, _)
Gcd(a, b) == IF b = 0 THEN a ELSE Gcd(b, a % b)

\* n/d in lowest terms, d > 0
R(n, d) ==
    LET g == Gcd(Abs(n), Abs(d))
        s == IF d < 0 THEN -1 ELSE 1
    IN  <<(s * n) \div g, (s * d) \div g>>

RInt(n) == <<n, 1>>
\* the least common denominator keeps the intermediate products small
Lcd(a, b) == (a[2] \div Gcd(a[2], b[2])) * b[2]
OnLcd(a, b) == a[1] * (Lcd(a, b) \div a[2])
RAdd(a, b) == R(OnLcd(a, b) + OnLcd(b, a), Lcd(a, b))
RSub(a, b) == R(OnLcd(a, b) - OnLcd(b, a), Lcd(a, b))
RMul(a, b) ==
    LET x == R(a[1], b[2])
        y == R(b[1], a[2])
    IN  <<x[1] * y[1], x[2] * y[2]>>
RDiv(a, b) == RMul(a, R(b[2], b[1]))
RLt(a, b) == OnLcd(a, b) < OnLcd(b, a)
RLe(a, b) == OnLcd(a, b) <= OnLcd(b, a)
RMax(a, b) == IF RLt(a, b) THEN b ELSE a
RMin(a, b) == IF RLt(b, a) THEN b ELSE a

(***************************************************************************)
(* src/strategies/arbitrage.py: find_profitable_cycles                     *)
(***************************************************************************)
\* 1 pip per trade (arbitrage.py:63)
transaction_cost_per_trade == R(1, 10000)

\* the spread ceiling of the advisory filter (arbitrage.py:37)
spread_ceiling == R(10, 10000)

\* arbitrage.py:29-32: the currencies that have exchange rate data
currencies_of(xr) == {p[1] : p \in DOMAIN xr} \cup {p[2] : p \in DOMAIN xr}

\* arbitrage.py:35-38: pairs with acceptable spreads (computed, never read)
valid_pairs_of(xr) == {p \in DOMAIN xr : RLe(xr[p].spread, spread_ceiling)}

\* arbitrage.py:50-53: the edges of a closed path, path[i] -> path[(i+1) % len]
cycle_pairs_of(path) ==
    [i \in 1..Len(path) |-> <<path[i], path[(i % Len(path)) + 1]>>]

\* arbitrage.py:47,55-58: profit_ratio = 1.0; profit_ratio *= rate, edge by edge
RECURSIVE profit_ratio_of(_, _, _)
profit_ratio_of(pairs, er, i) ==
    IF i > Len(pairs) THEN RInt(1)
    ELSE RMul(er[pairs[i]], profit_ratio_of(pairs, er, i + 1))

\* arbitrage.py:64-65
effective_profit_of(ratio, n) ==
    RSub(RSub(ratio, RInt(1)), RMul(transaction_cost_per_trade, RInt(n)))

\* arbitrage.py:67: the acceptance test
IsProfitable_strict(ep, minp) == RLt(minp, ep)
IsProfitable_loose(ep, minp) == RLe(minp, ep)
IsProfitable(ep, minp) == IsProfitable_strict(ep, minp)

\* arbitrage.py:44: the depth limit
AtDepthLimit_ge(depth, maxlen) == depth >= maxlen
AtDepthLimit_gt(depth, maxlen) == depth > maxlen
AtDepthLimit(depth, maxlen) == AtDepthLimit_ge(depth, maxlen)

\* arbitrage.py:46-73: score a closed path; the list of cycles it adds
score_path(path, er, minp) ==
    LET pairs == cycle_pairs_of(path)
    IN  IF \E i \in 1..Len(pairs) : pairs[i] \notin DOMAIN er
        THEN <<>>    \* arbitrage.py:59-60: skip if any pair doesn't exist
        ELSE LET ratio == profit_ratio_of(pairs, er, 1)
                 ep == effective_profit_of(ratio, Len(pairs))
             IN  IF IsProfitable(ep, minp)
                 THEN << [pairs |-> pairs, profit_ratio |-> ratio,
                          effective_profit |-> ep] >>
                 ELSE <<>>

\* arbitrage.py:42-88: the cycles dfs appends, in the order it appends them.
\* order is the iteration order of the set currencies (arbitrage.py:84).
RECURSIVE dfs(_, _, _, _, _, _, _, _)
RECURSIVE dfs_next(_, _, _, _, _, _, _, _, _)
dfs(current, path, visited, depth, er, start, maxlen_minp, order) ==
    IF AtDepthLimit(depth, maxlen_minp[1])
    THEN IF current = start THEN score_path(path, er, maxlen_minp[2]) ELSE <<>>
    ELSE IF current \in visited /\ (current # start \/ depth = 0)
         THEN <<>>
         ELSE dfs_next(1, current, path, visited \cup {current}, depth, er,
                       start, maxlen_minp, order)

\* arbitrage.py:84-88: for next_curr in currencies
dfs_next(i, current, path, new_visited, depth, er, start, maxlen_minp, order) ==
    IF i > Len(order) THEN <<>>
    ELSE (IF <<current, order[i]>> \in DOMAIN er
          THEN dfs(order[i], Append(path, current), new_visited, depth + 1,
                   er, start, maxlen_minp, order)
          ELSE <<>>)
         \o dfs_next(i + 1, current, path, new_visited, depth, er, start,
                     maxlen_minp, order)

\* arbitrage.py:94: list.sort(key=effective_profit, reverse=True), a stable
\* sort: equal keys keep their order
RECURSIVE insert_desc(_, _)
insert_desc(sorted, c) ==
    IF sorted = <<>> THEN <<c>>
    ELSE IF RLt(Head(sorted).effective_profit, c.effective_profit)
         THEN <<c>> \o sorted
         ELSE <<Head(sorted)>> \o insert_desc(Tail(sorted), c)

RECURSIVE sort_by_profit_stable(_)
sort_by_profit_stable(cycles) ==
    IF cycles = <<>> THEN <<>>
    ELSE insert_desc(sort_by_profit_stable(SubSeq(cycles, 1, Len(cycles) - 1)),
                     cycles[Len(cycles)])

sort_by_profit_skipped(cycles) == cycles
sort_by_profit(cycles) == sort_by_profit_stable(cycles)

\* arbitrage.py:10-96
find_profitable_cycles(xr, er, start, maxlen, minp, order) ==
    IF DOMAIN xr = {} THEN <<>>     \* arbitrage.py:25-26
    ELSE sort_by_profit(dfs(start, <<>>, {}, 0, er, start, <<maxlen, minp>>, order))

\* the orders in which a Python set of these elements may be iterated
IterationOrders(S) ==
    {f \in [1..Cardinality(S) -> S] : \A i, j \in DOMAIN f : f[i] = f[j] => i = j}

(***************************************************************************)
(* src/utils/performance.py: PerformanceTracker                            *)
(***************************************************************************)
\* performance.py:32-43: a TradeRecord is [expected_profit, actual_profit,
\* slippage]; its timestamp is never read and is left out
record_trade_append(ledger, trade_data) == Append(ledger, trade_data)
record_trade_insert(ledger, trade_data) == <<trade_data>> \o ledger
record_trade(ledger, trade_data) == record_trade_append(ledger, trade_data)

\* performance.py:45-55: self.trades[-count:] if len(self.trades) >= count
\* else self.trades
get_recent_trades(ledger, count) ==
    IF Len(ledger) >= count
    THEN SubSeq(ledger, Len(ledger) - count + 1, Len(ledger))
    ELSE ledger

RECURSIVE RSum(_)
RSum(xs) == IF xs = <<>> THEN RInt(0) ELSE RAdd(Head(xs), RSum(Tail(xs)))

\* sum(xs) / len(xs)
Mean(xs) == RDiv(RSum(xs), RInt(Len(xs)))

(***************************************************************************)
(* src/trader.py: sessions and strategy parameters                         *)
(***************************************************************************)
\* trader.py:101-127
determine_market_session_overlaps_first(hour) ==
    LET tokyo_open == 0 <= hour /\ hour < 9
        london_open == 8 <= hour /\ hour < 16
        ny_open == 13 <= hour /\ hour < 22
    IN  IF london_open /\ ny_open THEN "london_ny_overlap"
        ELSE IF tokyo_open /\ london_open THEN "tokyo_london_overlap"
        ELSE IF london_open THEN "london"
        ELSE IF ny_open THEN "new_york"
        ELSE IF tokyo_open THEN "tokyo"
        ELSE "low_liquidity"

determine_market_session_tokyo_first(hour) ==
    LET tokyo_open == 0 <= hour /\ hour < 9
        london_open == 8 <= hour /\ hour < 16
        ny_open == 13 <= hour /\ hour < 22
    IN  IF london_open /\ ny_open THEN "london_ny_overlap"
        ELSE IF tokyo_open THEN "tokyo"
        ELSE IF tokyo_open /\ london_open THEN "tokyo_london_overlap"
        ELSE IF london_open THEN "london"
        ELSE IF ny_open THEN "new_york"
        ELSE "low_liquidity"

determine_market_session(hour) == determine_market_session_overlaps_first(hour)

\* config.get('min_profit_threshold', 0.001) (trader.py:61, config.py:16)
config_min_profit_threshold == R(1, 1000)

\* trader.py:143-161: the threshold and self.check_interval of a session
session_threshold_scaled(session) ==
    IF session = "london_ny_overlap"
    THEN RMul(config_min_profit_threshold, R(8, 10))
    ELSE IF session = "tokyo_london_overlap"
    THEN RMul(config_min_profit_threshold, R(9, 10))
    ELSE IF session \in {"london", "new_york"}
    THEN config_min_profit_threshold
    ELSE RMul(config_min_profit_threshold, R(15, 10))

session_threshold_unscaled(session) == config_min_profit_threshold

session_threshold(session) == session_threshold_scaled(session)

session_check_interval(session) ==
    IF session = "london_ny_overlap" THEN 1
    ELSE IF session = "tokyo_london_overlap" THEN 2
    ELSE IF session \in {"london", "new_york"} THEN 3
    ELSE 5

(***************************************************************************)
(* src/trader.py: circuit breakers (check_circuit_breakers reads the       *)
(* counter, then asks the broker for the balance, then reads the ledger)   *)
(***************************************************************************)
\* config.get('max_consecutive_losses', 3) (trader.py:44)
max_consecutive_losses == 3

\* config.get('daily_loss_limit_pct', 0.05) (trader.py:45)
daily_loss_limit_pct == R(5, 100)

\* trader.py:47
daily_loss_limit(start_bal) == RMul(RInt(start_bal), daily_loss_limit_pct)

\* trader.py:399-401: TRUE when the consecutive-loss breaker trips
loss_breaker_ge(losses) == losses >= max_consecutive_losses
loss_breaker_gt(losses) == losses > max_consecutive_losses
loss_breaker(losses) == loss_breaker_ge(losses)

\* trader.py:404-409: TRUE when the daily-loss breaker trips
daily_breaker_gt(start_bal, current_balance) ==
    RLt(self_daily_loss_limit, RInt(start_bal - current_balance))
daily_breaker_ge(start_bal, current_balance) ==
    RLe(self_daily_loss_limit, RInt(start_bal - current_balance))
daily_breaker(start_bal, current_balance) ==
    daily_breaker_gt(start_bal, current_balance)

\* 0.3% (trader.py:417)
slippage_ceiling == R(3, 1000)

\* trader.py:412-419: TRUE when the slippage breaker trips
slippage_breaker_recent(ledger) ==
    LET recent_trades == get_recent_trades(ledger, 3)
    IN  /\ recent_trades # <<>>
        /\ RLt(slippage_ceiling,
               Mean([i \in 1..Len(recent_trades) |-> recent_trades[i].slippage]))
slippage_breaker_full_window(ledger) ==
    Len(ledger) >= 3 /\ slippage_breaker_recent(ledger)
slippage_breaker(ledger) == slippage_breaker_recent(ledger)

Never == -1

\* 300 seconds (trader.py:436)
opportunity_window == 300

\* trader.py:429-438: the session part of should_trade_now
session_allows_lt(session, age) ==
    IF session \in {"london_ny_overlap", "tokyo_london_overlap", "london",
                    "new_york"}
    THEN TRUE
    ELSE IF session \in {"tokyo", "low_liquidity"}
    THEN age # Never /\ age < opportunity_window
    ELSE TRUE
session_allows_le(session, age) ==
    IF session \in {"london_ny_overlap", "tokyo_london_overlap", "london",
                    "new_york"}
    THEN TRUE
    ELSE IF session \in {"tokyo", "low_liquidity"}
    THEN age # Never /\ age <= opportunity_window
    ELSE TRUE
session_allows(session, age) == session_allows_lt(session, age)

\* trader.py:404-421 and 426-438: what refuses the tick once the balance is
\* known, "none" when should_trade_now is true
refusal_with(start_bal, current_balance, ledger, session, age) ==
    IF daily_breaker(start_bal, current_balance) THEN "daily_loss"
    ELSE IF slippage_breaker(ledger) THEN "slippage"
    ELSE IF ~session_allows(session, age) THEN "session"
    ELSE "none"

(***************************************************************************)
(* src/trader.py: position sizing                                          *)
(***************************************************************************)
\* trader.py:365-375
session_factor(session) ==
    CASE session = "london_ny_overlap" -> R(12, 10)
      [] session = "tokyo_london_overlap" -> R(11, 10)
      [] session = "london" -> R(1, 1)
      [] session = "new_york" -> R(1, 1)
      [] session = "tokyo" -> R(8, 10)
      [] session = "low_liquidity" -> R(5, 10)
      [] OTHER -> R(1, 1)

\* trader.py:345-394, from the balance on
calculate_position_size_floor_then_cap(account_balance, session, cycle_quality, losses) ==
    LET risk_per_trade == IF account_balance < 1000 THEN R(1, 100)
                          ELSE IF account_balance < 10000 THEN R(2, 100)
                          ELSE R(3, 100)
        quality_factor == RMin(RMax(RMul(cycle_quality, RInt(10)), R(5, 10)), RInt(2))
        confidence_factor == RMax(R(5, 10), RSub(RInt(1), RMul(RInt(losses), R(2, 10))))
        position_size ==
            RMul(RMul(RMul(RMul(RInt(account_balance), risk_per_trade),
                           session_factor(session)), quality_factor),
                 confidence_factor)
        min_position == RInt(100)
        max_position == RMul(RInt(account_balance), R(1, 10))
    IN  RMin(RMax(position_size, min_position), max_position)

calculate_position_size_cap_then_floor(account_balance, session, cycle_quality, losses) ==
    RMax(RMin(calculate_position_size_floor_then_cap(account_balance, session,
                                                     cycle_quality, losses),
              RMul(RInt(account_balance), R(1, 10))),
         RInt(100))

calculate_position_size(account_balance, session, cycle_quality, losses) ==
    calculate_position_size_floor_then_cap(account_balance, session,
                                           cycle_quality, losses)

(***************************************************************************)
(* src/trader.py: the rate snapshot                                        *)
(***************************************************************************)
\* config.get('volatility_window', 20) (trader.py:62); the modelled run is
\* configured with a window of 1
volatility_window == 1

\* trader.py:211-218: the synthetic inverse of a quote
inverse_quote_flipped(q) ==
    [bid |-> RDiv(RInt(1), q.ask), ask |-> RDiv(RInt(1), q.bid),
     mid |-> RDiv(RInt(1), q.mid),
     spread |-> RDiv(q.spread, RMul(q.bid, q.ask)), synthetic |-> TRUE]

inverse_quote_unflipped(q) ==
    [bid |-> RDiv(RInt(1), q.bid), ask |-> RDiv(RInt(1), q.ask),
     mid |-> RDiv(RInt(1), q.mid),
     spread |-> RDiv(q.spread, RMul(q.bid, q.ask)), synthetic |-> TRUE]

inverse_quote(q) == inverse_quote_flipped(q)

\* trader.py:200-202: the mid is appended and the oldest entry dropped when
\* the list has become longer than the window
update_rate_history_gt(history, mid, window) ==
    LET h1 == Append(history, mid)
    IN  IF Len(h1) > window THEN Tail(h1) ELSE h1
update_rate_history_ge(history, mid, window) ==
    LET h1 == Append(history, mid)
    IN  IF Len(h1) >= window THEN Tail(h1) ELSE h1
update_rate_history(history, mid, window) ==
    update_rate_history_gt(history, mid, window)

\* trader.py:191-220: the results, in the order the fetches completed; acc is
\* [rates, order (the insertion order of the dict rates), history]
RECURSIVE process_results(_, _, _, _)
process_results(results, i, acc, catalog) ==
    IF i > Len(results) THEN acc
    ELSE LET pair == results[i][1]
             result == results[i][2]
         IN  IF result = <<>> THEN process_results(results, i + 1, acc, catalog)
             ELSE LET q == result[1]
                      rates1 == (pair :> q) @@ acc.rates
                      order1 == IF pair \in DOMAIN acc.rates THEN acc.order
                                ELSE Append(acc.order, pair)
                      h2 == update_rate_history(acc.history[pair], q.mid,
                                                self_volatility_window)
                      inverse_pair == <<pair[2], pair[1]>>
                      synth == /\ inverse_pair \notin DOMAIN rates1
                               /\ inverse_pair \notin catalog
                  IN  process_results(results, i + 1,
                        [rates |-> IF synth
                                   THEN (inverse_pair :> inverse_quote(q)) @@ rates1
                                   ELSE rates1,
                         order |-> IF synth THEN Append(order1, inverse_pair)
                                   ELSE order1,
                         history |-> [acc.history EXCEPT ![pair] = h2]],
                        catalog)

\* trader.py:226-233: the effective rates, written in the order of rates.items()
RECURSIVE derive_effective_rates(_, _, _, _)
derive_effective_rates(rates, order, i, eff) ==
    IF i > Len(order) THEN eff
    ELSE LET p == order[i]
             data == rates[p]
             e1 == (p :> data.ask) @@ eff
             rev == <<p[2], p[1]>>
             e2 == IF rev \in DOMAIN rates
                   THEN (rev :> RDiv(RInt(1), data.bid)) @@ e1
                   ELSE e1
         IN  derive_effective_rates(rates, order, i + 1, e2)

(***************************************************************************)
(* src/trader.py: the adaptive adjustment                                  *)
(***************************************************************************)
\* trader.py:440-465: the threshold after analyze_performance
analyze_performance(ledger, threshold) ==
    LET recent_trades == get_recent_trades(ledger, 5)
    IN  IF recent_trades = <<>> THEN threshold
        ELSE LET n == Len(recent_trades)
                 avg_profit == Mean([i \in 1..n |-> recent_trades[i].actual_profit])
                 avg_slippage == Mean([i \in 1..n |-> recent_trades[i].slippage])
             IN  IF RLt(avg_profit, RInt(0))
                 THEN RMin(R(5, 1000), RMul(threshold, R(12, 10)))
                 ELSE IF RLt(R(2, 1000), avg_profit) /\ RLt(avg_slippage, R(1, 1000))
                 THEN RMax(R(8, 10000), RMul(threshold, R(9, 10)))
                 ELSE threshold

(***************************************************************************)
(* src/trader.py: the outcome of a cycle                                   *)
(***************************************************************************)
\* trader.py:336-341 and 547-550: the counter after an outcome; won is
\* results['profit'] > 0 (real) or actual_profit > 0 (demo)
losses_after_reset_or_count(won, losses) == IF won THEN 0 ELSE losses + 1
losses_after_always_count(won, losses) == losses + 1
losses_after_count_twice(won, losses) == IF won THEN 0 ELSE losses + 2
losses_after(won, losses) == losses_after_reset_or_count(won, losses)

\* trader.py:324-334: the TradeRecord of a completed real execution
real_trade_record_expected_less_actual(expected_profit, amount, final_amount) ==
    LET profit_percentage ==
            RMul(RSub(RDiv(final_amount, amount), RInt(1)), RInt(100))
        actual == RDiv(profit_percentage, RInt(100))
    IN  [expected_profit |-> expected_profit, actual_profit |-> actual,
         slippage |-> RSub(expected_profit, actual)]

real_trade_record_actual_less_expected(expected_profit, amount, final_amount) ==
    LET profit_percentage ==
            RMul(RSub(RDiv(final_amount, amount), RInt(1)), RInt(100))
        actual == RDiv(profit_percentage, RInt(100))
    IN  [expected_profit |-> expected_profit, actual_profit |-> actual,
         slippage |-> RSub(actual, expected_profit)]

real_trade_record(expected_profit, amount, final_amount) ==
    real_trade_record_expected_less_actual(expected_profit, amount, final_amount)

\* trader.py:532-545: the TradeRecord of a simulated trade
demo_trade_record_clamped(expected_profit, simulated_slippage) ==
    [expected_profit |-> expected_profit,
     actual_profit |-> RMax(RInt(0), RSub(expected_profit, simulated_slippage)),
     slippage |-> simulated_slippage]

demo_trade_record_unclamped(expected_profit, simulated_slippage) ==
    [expected_profit |-> expected_profit,
     actual_profit |-> RSub(expected_profit, simulated_slippage),
     slippage |-> simulated_slippage]

demo_trade_record(expected_profit, simulated_slippage) ==
    demo_trade_record_clamped(expected_profit, simulated_slippage)

\* trader.py:277-285: the units of a leg
leg_units(from_curr, current_amount, mid) ==
    LET units == IF from_curr = "USD" THEN current_amount
                 ELSE RDiv(current_amount, mid)
    IN  <<Abs(units[1]), units[2]>>

\* trader.py:504: config.get('currencies_to_monitor', ['USD', 'EUR', 'GBP'])
monitoring_currencies == <<"USD", "EUR", "GBP">>

\* the default max_cycle_length of find_profitable_cycles (arbitrage.py:11)
default_max_cycle_length == 3

\* trader.py:503-515: the cycles of every monitored currency, sorted by profit
RECURSIVE search_from(_, _, _, _, _)
search_from(i, xr, er, minp, order) ==
    IF i > Len(monitoring_currencies) THEN <<>>
    ELSE find_profitable_cycles(xr, er, monitoring_currencies[i],
                                default_max_cycle_length, minp, order)
         \o search_from(i + 1, xr, er, minp, order)

search_cycles(xr, er, minp, order) ==
    sort_by_profit(search_from(1, xr, er, minp, order))

(***************************************************************************)
(* One call of find_profitable_cycles on bounded inputs.                   *)
(***************************************************************************)
Currency == {"USD", "EUR", "GBP"}

MaxCycleLen == 4

\* the edges a book may hold: every pair of distinct currencies, and a self-edge
BookEdges == {p \in Currency \X Currency : p[1] # p[2]} \cup {<<"USD", "USD">>}

\* rates of the spec's triangle scenario (USD->EUR->GBP->USD = 1.0125), a
\* weaker reverse triangle, and a flat table on which every cycle ties
TriangleRates ==
    [p \in BookEdges |->
        CASE p = <<"USD", "EUR">> -> R(9, 10)
          [] p = <<"EUR", "GBP">> -> R(9, 10)
          [] p = <<"GBP", "USD">> -> R(5, 4)
          [] p = <<"USD", "GBP">> -> R(1, 1)
          [] p = <<"GBP", "EUR">> -> R(1, 1)
          [] p = <<"EUR", "USD">> -> R(101, 100)
          [] OTHER -> R(11, 10)]

FlatRates == [p \in BookEdges |-> R(11, 10)]

RateTables == {TriangleRates, FlatRates}

EffectiveBooks == {[p \in E |-> T[p]] : E \in SUBSET BookEdges, T \in RateTables}

Spreads == {R(2, 10000), R(2, 1000)}

\* rate books over the same keys as the effective book (as the trader builds
\* them), over no key, and over the keys that do not touch GBP
RateBooksFor(er) ==
    {[p \in K |-> [spread |-> s]] :
        K \in {DOMAIN er, {}, {p \in DOMAIN er : "GBP" \notin {p[1], p[2]}}},
        s \in Spreads}

MinProfits == {R(0, 1), R(1, 1000), R(61, 5000)}

(***************************************************************************)
(* The trader's control loop, run() (trader.py:467-581), as steps between   *)
(* its suspension points: the broker calls, the lock and the sleeps.        *)
(***************************************************************************)
Loops == {1, 2}

Free == 0

\* the bound on the ledger's length
MaxTrades == 3

\* the instruments the broker lists (trader.py:56-58), as pairs
catalog_pairs == <<<<"EUR", "USD">>, <<"EUR", "GBP">>, <<"GBP", "USD">>>>

catalog == {catalog_pairs[i] : i \in DOMAIN catalog_pairs}

\* ---- what the broker and the clock may answer
FlatQuote == [bid |-> R(1, 1), ask |-> R(1, 1), mid |-> R(1, 1),
              spread |-> R(0, 1), synthetic |-> FALSE]

ArbQuote == [bid |-> R(1, 1), ask |-> R(10023, 10000), mid |-> R(20023, 20000),
             spread |-> R(23, 10000), synthetic |-> FALSE]

\* a quote, or <<>> when get_current_price returns None
QuoteAnswers(pair) ==
    IF pair = <<"EUR", "USD">> THEN {<<FlatQuote>>}
    ELSE IF pair = <<"EUR", "GBP">> THEN {<<>>, <<FlatQuote>>}
    ELSE {<<ArbQuote>>}

\* the orders in which the fetches may complete: as submitted, or reversed
CompletionOrders ==
    {catalog_pairs,
     [i \in DOMAIN catalog_pairs |-> catalog_pairs[Len(catalog_pairs) + 1 - i]]}

\* the results of one snapshot: every catalog pair once, in completion order
FetchResults ==
    {[i \in DOMAIN f |-> <<f[i], a[f[i]]>>] :
        f \in CompletionOrders,
        a \in {a \in [catalog -> {<<>>, <<FlatQuote>>, <<ArbQuote>>}] :
                  \A p \in catalog : a[p] \in QuoteAnswers(p)}}

\* two of the orders in which the set of currencies may be iterated
SearchOrders(S) ==
    LET listed == SelectSeq(monitoring_currencies, LAMBDA c : c \in S)
    IN  {listed, [i \in DOMAIN listed |-> listed[Len(listed) + 1 - i]]}

Hours == {3, 14}

Balances == {45000, 47500, 50000}

\* draws of np.random.normal(0.001, 0.0005) (trader.py:533)
SlippageDraws == {R(1, 1000), R(3, 1000), R(7, 2000)}

\* the balance the broker reports when nothing was lost
SteadyBalances == {50000}

ExecQuoteAnswers == {<<>>, <<FlatQuote>>}

\* integer rounding toward zero of a non-negative amount
Trunc(x) == x[1] \div x[2]

\* the prices at which the broker may fill a leg: none, the quoted one or a
\* better one (0.01% better before the last leg, 0.3% better on it)
FillPrices(last_leg) ==
    {R(0, 1), R(1, 1), IF last_leg THEN R(1003, 1000) ELSE R(10001, 10000)}

\* the answers to an order: None, or a fill of the ordered whole units (or of
\* none) at a price
FillAnswers(units, prices) ==
    {<<>>} \cup
    {<<[price |-> pr, units |-> RInt(Trunc(units))]>> : pr \in prices} \cup
    {<<[price |-> R(1, 1), units |-> RInt(0)]>>}

\* a broker that fills at the quoted price before the last leg and 0.3%
\* better on it
SteadyFillPrices(last_leg) ==
    {IF last_leg THEN R(1003, 1000) ELSE R(1, 1)}

\* run()'s check_interval argument (main.py:78); the modelled run uses 100 s
check_interval == 100

NoCycle == [pairs |-> <<>>, profit_ratio |-> RInt(1), effective_profit |-> RInt(0)]

\* trader.py:180-188: no snapshot in progress.  next is the index of the next
\* pair to submit, queue the submitted work not yet taken by a worker,
\* in_flight the pairs whose request is running in a worker, requested the
\* pairs in the order their requests began, results the list filled by the
\* as_completed loop
IdlePool == [phase |-> "idle", next |-> 1, queue |-> <<>>, in_flight |-> {},
             requested |-> <<>>, results |-> <<>>, latency |-> "none"]

IdleLoop == [pc |-> "idle", gate |-> "none", best_cycle |-> NoCycle,
             position_size |-> RInt(0), leg |-> 0, current_currency |-> "",
             current_amount |-> RInt(0), units |-> RInt(0),
             price_mid |-> RInt(0), success |-> TRUE,
             sleep_for |-> 0, tick_orders |-> <<>>, tick_records |-> 0,
             tick_losses |-> 0, executing |-> FALSE,
             current_balance |-> <<>>, refused_by |-> "none",
             error |-> "none", tick_quotes |-> <<>>, results_trades |-> <<>>,
             profit |-> RInt(0), prior_threshold |-> <<>>,
             search_min_profit |-> <<>>, account_balance |-> <<>>,
             tick_fetched |-> <<>>, search_books |-> <<>>]

\* trader.py:21-74 and 476-481: the trader as constructed, run() entered by
\* the loops of running
ConstructedWith(window, instruments, balance, running, demos, runtimes) ==
    /\ consecutive_losses = 0
    /\ starting_balance = balance
    /\ self_daily_loss_limit = daily_loss_limit(starting_balance)
    /\ valid_pairs = instruments
    /\ self_volatility_window = window
    /\ pool = IdlePool
    /\ trades = <<>>
    /\ rate_history = [p \in {instruments[i] : i \in DOMAIN instruments} |-> <<>>]
    /\ market_session = "unknown"
    /\ utc_hour = Never
    /\ min_profit_threshold = config_min_profit_threshold
    /\ self_check_interval = 0
    /\ trade_lock = Free
    /\ opp_age = Never
    /\ demo_mode \in demos
    /\ max_runtime \in runtimes
    /\ elapsed = 0
    /\ loop = [t \in Loops |-> IF t \in running
                               THEN [IdleLoop EXCEPT !.pc = "loop_head"]
                               ELSE IdleLoop]
    /\ saved = 0

\* the trader configured with the modelled window
Constructed(instruments, balance, running, demos, runtimes) ==
    ConstructedWith(volatility_window, instruments, balance, running, demos,
                    runtimes)

\* the trader of the modelled runs: three instruments, a balance of 50000
TraderInit(running, demos, runtimes) ==
    Constructed(catalog_pairs, 50000, running, demos, runtimes)

\* trader.py:48-49: no rates before the first snapshot
NoRates ==
    /\ exchange_rates = <<>>
    /\ effective_rates = <<>>
    /\ fetched = <<>>

FpcIdle ==
    /\ start_currency = "USD"
    /\ max_cycle_length = default_max_cycle_length
    /\ min_profit = config_min_profit_threshold
    /\ profitable_cycles = <<>>
    /\ fpc_pc = "idle"

\* trader.py:499 and 565: the sleep after a refusal and after a trade
long_sleep_double(interval) == interval * 2
long_sleep_single(interval) == interval
long_sleep(interval) == long_sleep_double(interval)

\* trader.py:568: the sleep of a tick that found nothing
normal_sleep(interval) == interval

\* trader.py:529: the lock can be taken when no loop holds it
lock_available_free(lock) == lock = Free
lock_available_always(lock) == TRUE
lock_available(lock) == lock_available_free(lock)

\* trader.py:486
runtime_reached == max_runtime # 0 /\ elapsed >= max_runtime

\* trader.py:497-500: should_trade_now is false; sleep longer and continue
refuse(l, warning) ==
    [l EXCEPT !.gate = "refused", !.refused_by = warning, !.pc = "sleep",
              !.sleep_for = long_sleep(check_interval)]

\* the return of execute_arbitrage_cycle with success False, then
\* trader.py:561-565
abort_cycle_return(l, error) ==
    [l EXCEPT !.success = FALSE, !.error = error, !.pc = "sleep",
              !.sleep_for = long_sleep(check_interval)]
abort_cycle_go_on(l, error) ==
    [l EXCEPT !.success = FALSE, !.error = error, !.pc = "leg_price"]
abort_cycle_raise(l, error) ==
    [l EXCEPT !.success = FALSE, !.error = error, !.pc = "finally"]
abort_cycle(l, error) == abort_cycle_return(l, error)

\* trader.py:486-488: the runtime is used up; leave the loop
RuntimeReached(t) ==
    /\ loop[t].pc = "loop_head"
    /\ runtime_reached
    /\ loop' = [loop EXCEPT ![t].pc = "finally"]
    /\ UNCHANGED <<book_vars, fpc_vars, consecutive_losses, starting_balance,
                   self_daily_loss_limit, valid_pairs,
                   self_volatility_window, pool,
                   trades, rate_history, market_session, utc_hour, min_profit_threshold,
                   self_check_interval, trade_lock, opp_age, demo_mode,
                   max_runtime, elapsed, saved>>

\* trader.py:491 (adjust_strategy_for_session, 129-165): a tick begins
TickStart(t, hours) ==
    /\ loop[t].pc = "loop_head"
    /\ ~runtime_reached
    /\ \E hour \in hours :
          LET session == determine_market_session(hour)
          IN  /\ utc_hour' = hour
              /\ market_session' = session
              /\ min_profit_threshold' = session_threshold(session)
              /\ self_check_interval' = session_check_interval(session)
    /\ loop' = [loop EXCEPT ![t].pc = "fetching",
                             ![t].tick_losses = consecutive_losses,
                             ![t].prior_threshold = <<min_profit_threshold>>]
    /\ UNCHANGED <<book_vars, fpc_vars, consecutive_losses, starting_balance,
                   self_daily_loss_limit, valid_pairs,
                   self_volatility_window, pool,
                   trades, rate_history, trade_lock, opp_age, demo_mode,
                   max_runtime, elapsed, saved>>

\* trader.py:167-236: the snapshot built from the results of the fetches
fetch_exchange_rates_parallel_wholesale(results) ==
    LET acc == process_results(results, 1,
                  [rates |-> <<>>, order |-> <<>>, history |-> rate_history],
                  {valid_pairs[i] : i \in DOMAIN valid_pairs})
    IN  /\ fetched' = results
        /\ exchange_rates' = acc.rates
        /\ effective_rates' = derive_effective_rates(acc.rates, acc.order, 1, <<>>)
        /\ rate_history' = acc.history

fetch_exchange_rates_parallel_merging(results) ==
    LET acc == process_results(results, 1,
                  [rates |-> <<>>, order |-> <<>>, history |-> rate_history],
                  {valid_pairs[i] : i \in DOMAIN valid_pairs})
    IN  /\ fetched' = results
        /\ exchange_rates' = acc.rates @@ exchange_rates
        /\ effective_rates' =
               derive_effective_rates(acc.rates, acc.order, 1, <<>>)
                   @@ effective_rates
        /\ rate_history' = acc.history

fetch_exchange_rates_parallel(results) ==
    fetch_exchange_rates_parallel_wholesale(results)

\* trader.py:494 (fetch_exchange_rates_parallel, 167-236), then the first
\* test of check_circuit_breakers (399-401)
FetchDone(t, fetches) ==
    /\ loop[t].pc = "fetching"
    /\ \E results \in fetches :
          /\ fetch_exchange_rates_parallel(results)
          /\ loop' = [loop EXCEPT ![t] =
                        IF loss_breaker(consecutive_losses)
                        THEN refuse([@ EXCEPT !.tick_fetched = results],
                                    "consecutive_losses")
                        ELSE [@ EXCEPT !.tick_fetched = results,
                                       !.pc = "gate_balance"]]
    /\ UNCHANGED <<fpc_vars, consecutive_losses, starting_balance,
                   self_daily_loss_limit, valid_pairs,
                   self_volatility_window, pool, trades,
                   market_session, utc_hour, min_profit_threshold, self_check_interval,
                   trade_lock, opp_age, demo_mode, max_runtime, elapsed, saved>>

\* trader.py:404-421 and 429-438: the balance arrives; the rest of
\* should_trade_now; then the search (503-523)
GateBalance(t, balances) ==
    /\ loop[t].pc = "gate_balance"
    /\ \E current_balance \in balances :
          LET l == [loop[t] EXCEPT !.current_balance = <<current_balance>>]
              refusal == refusal_with(starting_balance, current_balance, trades,
                                      market_session, opp_age)
          IN  IF refusal = "none"
              THEN \E order \in SearchOrders(currencies_of(exchange_rates)) :
                      LET cycles == search_cycles(exchange_rates, effective_rates,
                                                  min_profit_threshold, order)
                      IN  IF cycles # <<>>
                          THEN /\ loop' = [loop EXCEPT ![t] =
                                             [l EXCEPT !.gate = "passed",
                                                       !.search_min_profit =
                                                           <<min_profit_threshold>>,
                                                       !.search_books =
                                                           <<exchange_rates,
                                                             effective_rates>>,
                                                       !.best_cycle = cycles[1],
                                                       !.pc = "size_balance"]]
                               /\ opp_age' = 0
                          ELSE /\ loop' = [loop EXCEPT ![t] =
                                             [l EXCEPT !.gate = "passed",
                                                !.search_min_profit =
                                                    <<min_profit_threshold>>,
                                                !.search_books =
                                                    <<exchange_rates,
                                                      effective_rates>>,
                                                !.pc = "sleep",
                                                !.sleep_for =
                                                    normal_sleep(check_interval)]]
                               /\ UNCHANGED opp_age
              ELSE /\ loop' = [loop EXCEPT ![t] = refuse(l, refusal)]
                   /\ UNCHANGED opp_age
    /\ UNCHANGED <<book_vars, fpc_vars, consecutive_losses, starting_balance,
                   self_daily_loss_limit, valid_pairs,
                   self_volatility_window, pool,
                   trades, rate_history, market_session, utc_hour, min_profit_threshold,
                   self_check_interval, trade_lock, demo_mode, max_runtime,
                   elapsed, saved>>

\* trader.py:526 (calculate_position_size, 345-394)
SizeBalance(t, balances) ==
    /\ loop[t].pc = "size_balance"
    /\ \E account_balance \in balances :
          loop' = [loop EXCEPT
                     ![t].account_balance = <<account_balance>>,
                     ![t].position_size =
                         calculate_position_size(account_balance, market_session,
                             RMul(loop[t].best_cycle.effective_profit, RInt(100)),
                             consecutive_losses),
                     ![t].pc = "acquire"]
    /\ UNCHANGED <<book_vars, fpc_vars, consecutive_losses, starting_balance,
                   self_daily_loss_limit, valid_pairs,
                   self_volatility_window, pool,
                   trades, rate_history, market_session, utc_hour, min_profit_threshold,
                   self_check_interval, trade_lock, opp_age, demo_mode,
                   max_runtime, elapsed, saved>>

\* trader.py:258-263: the head of the loop over the legs, with legs to go
begin_leg(l) ==
    IF l.best_cycle.pairs[l.leg][1] # l.current_currency
    THEN abort_cycle(l, "Currency mismatch in trade sequence")
    ELSE [l EXCEPT !.pc = "leg_price"]

\* trader.py:529-565: the lock is taken; a simulated trade is one step, a
\* real one starts its first leg
Acquire(t, draws) ==
    /\ loop[t].pc = "acquire"
    /\ lock_available(trade_lock)
    /\ Len(trades) < MaxTrades
    /\ trade_lock' = t
    /\ IF demo_mode
       THEN \E simulated_slippage \in draws :
               LET record == demo_trade_record(loop[t].best_cycle.effective_profit,
                                               simulated_slippage)
               IN  /\ trades' = record_trade(trades, record)
                   /\ consecutive_losses' =
                          losses_after(RLt(RInt(0), record.actual_profit),
                                       consecutive_losses)
                   /\ loop' = [loop EXCEPT ![t].executing = TRUE,
                                  ![t].tick_records = @ + 1,
                                  ![t].pc = "sleep",
                                  ![t].sleep_for = long_sleep(check_interval)]
       ELSE /\ loop' = [loop EXCEPT ![t] =
                          begin_leg([loop[t] EXCEPT
                              !.executing = TRUE,
                              !.leg = 1,
                              !.current_currency = loop[t].best_cycle.pairs[1][1],
                              !.current_amount = loop[t].position_size])]
            /\ UNCHANGED <<trades, consecutive_losses>>
    /\ UNCHANGED <<book_vars, fpc_vars, starting_balance,
                   self_daily_loss_limit, valid_pairs,
                   self_volatility_window, pool, rate_history,
                   market_session, utc_hour, min_profit_threshold, self_check_interval,
                   opp_age, demo_mode, max_runtime, elapsed, saved>>

\* trader.py:281: current_amount / price_data['mid'] raises ZeroDivisionError
units_raise(from_curr, mid) == from_curr # "USD" /\ mid = RInt(0)

\* trader.py:572-573: an exception leaves the with block and the while loop
\* and is logged; the finally block is next
raised == [IdleLoop EXCEPT !.pc = "finally"]

\* trader.py:269-285: the price of the leg arrives; the units are computed
LegPrice(t, quotes) ==
    /\ loop[t].pc = "leg_price"
    /\ \E price_data \in quotes :
          IF price_data = <<>>
          THEN /\ loop' = [loop EXCEPT ![t] =
                            abort_cycle([@ EXCEPT !.tick_quotes = Append(@,
                                    loop[t].best_cycle.pairs[loop[t].leg])],
                                 "Price data unavailable")]
               /\ UNCHANGED trade_lock
          ELSE IF units_raise(loop[t].best_cycle.pairs[loop[t].leg][1],
                              price_data[1].mid)
          THEN /\ loop' = [loop EXCEPT ![t] = raised]
               /\ trade_lock' = Free
          ELSE /\ loop' = [loop EXCEPT ![t] =
                            [@ EXCEPT
                               !.tick_quotes = Append(@,
                                   loop[t].best_cycle.pairs[loop[t].leg]),
                               !.units =
                                   leg_units(loop[t].best_cycle.pairs[loop[t].leg][1],
                                             loop[t].current_amount,
                                             price_data[1].mid),
                               !.price_mid = price_data[1].mid,
                               !.pc = "leg_order"]]
               /\ UNCHANGED trade_lock
    /\ UNCHANGED <<book_vars, fpc_vars, consecutive_losses, starting_balance,
                   self_daily_loss_limit, valid_pairs,
                   self_volatility_window, pool,
                   trades, rate_history, market_session, utc_hour, min_profit_threshold,
                   self_check_interval, opp_age, demo_mode,
                   max_runtime, elapsed, saved>>

\* trader.py:288-343 and 555-565: the order is placed and answered; after the
\* last leg the outcome is recorded and the performance analysed.  An entry
\* of tick_orders is the instrument, the units passed to place_order, the
\* count place_order submits (Graph.py:166), and the current_amount and mid
\* the units were computed from
LegOrder(t, prices) ==
    /\ loop[t].pc = "leg_order"
    /\ \E order_result \in FillAnswers(loop[t].units,
                       prices[loop[t].leg = Len(loop[t].best_cycle.pairs)]) :
          LET l == [loop[t] EXCEPT !.tick_orders =
                      Append(@, <<loop[t].best_cycle.pairs[loop[t].leg],
                                  loop[t].units, Trunc(loop[t].units),
                                  loop[t].current_amount, loop[t].price_mid>>)]
              pairs == l.best_cycle.pairs
          IN  IF order_result = <<>>
              THEN /\ loop' = [loop EXCEPT ![t] = abort_cycle(l, "Order failed")]
                   /\ UNCHANGED <<trades, consecutive_losses, min_profit_threshold>>
              ELSE LET executed_price == order_result[1].price
                       executed_units == order_result[1].units
                       amount == RMul(executed_units, executed_price)
                       l1 == [l EXCEPT !.current_currency = pairs[l.leg][2],
                                       !.current_amount = amount,
                                       !.results_trades = Append(@,
                                           [units |-> executed_units,
                                            price |-> executed_price,
                                            amount |-> amount]),
                                       !.leg = @ + 1]
                   IN  IF RLe(executed_price, RInt(0)) \/ executed_units = RInt(0)
                       THEN /\ loop' = [loop EXCEPT ![t] =
                                          abort_cycle(l, "Invalid execution details")]
                            /\ UNCHANGED <<trades, consecutive_losses,
                                           min_profit_threshold>>
                       ELSE IF l1.leg <= Len(pairs)
                       THEN /\ loop' = [loop EXCEPT ![t] = begin_leg(l1)]
                            /\ UNCHANGED <<trades, consecutive_losses,
                                           min_profit_threshold>>
                       ELSE LET record ==
                                    real_trade_record(l.best_cycle.effective_profit,
                                                      l.position_size, amount)
                                profit == RSub(amount, l.position_size)
                            IN  /\ trades' = record_trade(trades, record)
                                /\ consecutive_losses' =
                                       losses_after(RLt(RInt(0), profit),
                                                    consecutive_losses)
                                /\ min_profit_threshold' =
                                       analyze_performance(trades',
                                                           min_profit_threshold)
                                /\ loop' = [loop EXCEPT ![t] =
                                      [l1 EXCEPT !.tick_records = @ + 1,
                                                 !.profit = profit,
                                                 !.pc = "sleep",
                                                 !.sleep_for =
                                                     long_sleep(check_interval)]]
    /\ UNCHANGED <<book_vars, fpc_vars, starting_balance,
                   self_daily_loss_limit, valid_pairs,
                   self_volatility_window, pool, rate_history,
                   market_session, utc_hour, self_check_interval, trade_lock, opp_age,
                   demo_mode, max_runtime, elapsed, saved>>

\* the clock after a sleep, kept up to the last value that is compared
later(age, seconds, cap) ==
    IF age + seconds > cap THEN cap ELSE age + seconds

\* trader.py:499-500, 565, 568: the sleep ends; leaving the with block
\* releases the lock; the loop goes round
Wake(t) ==
    /\ loop[t].pc = "sleep"
    /\ trade_lock' = IF loop[t].executing THEN Free ELSE trade_lock
    /\ elapsed' = IF max_runtime = 0 THEN elapsed
                  ELSE later(elapsed, loop[t].sleep_for, max_runtime)
    /\ opp_age' = IF opp_age = Never THEN Never
                  ELSE later(opp_age, loop[t].sleep_for, opportunity_window)
    /\ loop' = [loop EXCEPT ![t] = [IdleLoop EXCEPT !.pc = "loop_head"]]
    /\ UNCHANGED <<book_vars, fpc_vars, consecutive_losses, starting_balance,
                   self_daily_loss_limit, valid_pairs,
                   self_volatility_window, pool,
                   trades, rate_history, market_session, utc_hour, min_profit_threshold,
                   self_check_interval, demo_mode, max_runtime, saved>>

\* trader.py:570-571: KeyboardInterrupt while the loop waits in a sleep
Interrupt(t) ==
    /\ loop[t].pc = "sleep"
    /\ trade_lock' = IF loop[t].executing THEN Free ELSE trade_lock
    /\ loop' = [loop EXCEPT ![t] = [IdleLoop EXCEPT !.pc = "finally"]]
    /\ UNCHANGED <<book_vars, fpc_vars, consecutive_losses, starting_balance,
                   self_daily_loss_limit, valid_pairs,
                   self_volatility_window, pool,
                   trades, rate_history, market_session, utc_hour, min_profit_threshold,
                   self_check_interval, opp_age, demo_mode, max_runtime,
                   elapsed, saved>>

\* trader.py:577-578: total_profit / self.starting_balance raises
\* ZeroDivisionError in the finally block, before save_data
report_raises(start_bal) == start_bal = 0

\* a finally block that keeps the balance it reads at trader.py:575 as the
\* starting balance
Finally_rebasing(t) ==
    /\ loop[t].pc = "finally"
    /\ \E final_balance \in {45000, 47500} :
          starting_balance' = final_balance
    /\ saved' = IF report_raises(starting_balance) THEN saved ELSE saved + 1
    /\ loop' = [loop EXCEPT ![t].pc = "stopped"]
    /\ UNCHANGED <<book_vars, fpc_vars, consecutive_losses,
                   self_daily_loss_limit, valid_pairs,
                   self_volatility_window, pool,
                   trades, rate_history, market_session, utc_hour, min_profit_threshold,
                   self_check_interval, trade_lock, opp_age, demo_mode,
                   max_runtime, elapsed>>

\* trader.py:574-581: the finally block reports the balance and saves the
\* performance data
Finally(t) ==
    /\ loop[t].pc = "finally"
    /\ saved' = IF report_raises(starting_balance) THEN saved ELSE saved + 1
    /\ loop' = [loop EXCEPT ![t].pc = "stopped"]
    /\ UNCHANGED <<book_vars, fpc_vars, consecutive_losses, starting_balance,
                   self_daily_loss_limit, valid_pairs,
                   self_volatility_window, pool,
                   trades, rate_history, market_session, utc_hour, min_profit_threshold,
                   self_check_interval, trade_lock, opp_age, demo_mode,
                   max_runtime, elapsed>>

\* the runtime limits of the modelled runs: none, or 200 s
Runtimes == {0, 200}

\* ---- one control loop on the trader (main.py:69-81)
Init == TraderInit({1}, BOOLEAN, Runtimes) /\ NoRates /\ FpcIdle

Next ==
    \E t \in {1} :
        \/ RuntimeReached(t)
        \/ TickStart(t, Hours)
        \/ FetchDone(t, FetchResults)
        \/ GateBalance(t, Balances)
        \/ SizeBalance(t, Balances)
        \/ Acquire(t, SlippageDraws)
        \/ LegPrice(t, ExecQuoteAnswers)
        \/ LegOrder(t, [last_leg \in BOOLEAN |-> FillPrices(last_leg)])
        \/ Wake(t)
        \/ Interrupt(t)
        \/ Finally(t)

Spec == Init /\ [][Next]_vars

\* ---- two control loops on one trader, in a narrowed environment
QuotedResults ==
    [i \in DOMAIN catalog_pairs |->
        <<catalog_pairs[i],
          IF catalog_pairs[i] = <<"GBP", "USD">> THEN <<ArbQuote>>
          ELSE <<FlatQuote>>>>]

\* every pair quoted without an opportunity
FlatResults ==
    [i \in DOMAIN catalog_pairs |-> <<catalog_pairs[i], <<FlatQuote>>>>]

\* every pair quoted with the wide spread: the two triangles are both
\* profitable, with different profits
WideResults ==
    [i \in DOMAIN catalog_pairs |-> <<catalog_pairs[i], <<ArbQuote>>>>]

InitMT == TraderInit(Loops, BOOLEAN, {0}) /\ NoRates /\ FpcIdle

NextMT ==
    \E t \in Loops :
        \/ TickStart(t, {14})
        \/ FetchDone(t, {QuotedResults})
        \/ GateBalance(t, SteadyBalances)
        \/ SizeBalance(t, SteadyBalances)
        \/ Acquire(t, {R(1, 1000)})
        \/ LegPrice(t, {<<FlatQuote>>})
        \/ LegOrder(t, [last_leg \in BOOLEAN |-> SteadyFillPrices(last_leg)])
        \/ Wake(t)
        \/ Interrupt(t)
        \/ Finally(t)

SpecMT == InitMT /\ [][NextMT]_vars

\* ---- one control loop through every hour of the day, with a broker that
\* always quotes and a balance that does not move
UtcHours == 0..23

InitSession == TraderInit({1}, BOOLEAN, {0}) /\ NoRates /\ FpcIdle

NextSession ==
    \E t \in {1} :
        \/ TickStart(t, UtcHours)
        \/ FetchDone(t, {QuotedResults, FlatResults})
        \/ GateBalance(t, SteadyBalances)
        \/ SizeBalance(t, SteadyBalances)
        \/ Acquire(t, {R(1, 1000)})
        \/ LegPrice(t, {<<FlatQuote>>})
        \/ LegOrder(t, [last_leg \in BOOLEAN |-> SteadyFillPrices(last_leg)])
        \/ Wake(t)
        \/ Interrupt(t)
        \/ Finally(t)

SpecSession == InitSession /\ [][NextSession]_vars

\* ---- one control loop on accounts with and without money, with a broker
\* whose quote of a leg may be 0
AccountBalances == {0, 50000}

ZeroQuote == [bid |-> R(0, 1), ask |-> R(0, 1), mid |-> R(0, 1),
              spread |-> R(0, 1), synthetic |-> FALSE]

InitAccounts ==
    /\ \E balance \in AccountBalances :
          Constructed(catalog_pairs, balance, {1}, BOOLEAN, Runtimes)
    /\ NoRates
    /\ FpcIdle

NextAccounts ==
    \E t \in {1} :
        \/ RuntimeReached(t)
        \/ TickStart(t, Hours)
        \/ FetchDone(t, {QuotedResults, WideResults})
        \/ GateBalance(t, {starting_balance})
        \/ SizeBalance(t, {starting_balance})
        \/ Acquire(t, {R(1, 1000)})
        \/ LegPrice(t, {<<FlatQuote>>, <<ZeroQuote>>})
        \/ LegOrder(t, [last_leg \in BOOLEAN |-> SteadyFillPrices(last_leg)])
        \/ Wake(t)
        \/ Interrupt(t)
        \/ Finally(t)

SpecAccounts == InitAccounts /\ [][NextAccounts]_vars

(***************************************************************************)
(* Calls of fetch_exchange_rates_parallel on a trader that is not running,  *)
(* for catalogs without and with an instrument listed in both directions.   *)
(***************************************************************************)
SnapshotCatalogs ==
    {catalog_pairs,
     <<<<"EUR", "USD">>, <<"USD", "EUR">>>>,
     <<<<"EUR", "USD">>, <<"USD", "EUR">>, <<"GBP", "USD">>>>}

\* the results of one snapshot of the instruments: listed or reversed
\* completion order, each fetch answered None, FlatQuote or ArbQuote
SnapshotResults(instruments) ==
    LET listed == {instruments[i] : i \in DOMAIN instruments}
        orders == {instruments,
                   [i \in DOMAIN instruments |->
                       instruments[Len(instruments) + 1 - i]]}
    IN  {[i \in DOMAIN f |-> <<f[i], a[f[i]]>>] :
            f \in orders,
            a \in [listed -> {<<>>, <<FlatQuote>>, <<ArbQuote>>}]}

SnapshotInit ==
    /\ \E instruments \in SnapshotCatalogs :
          Constructed(instruments, 50000, {}, {FALSE}, {0})
    /\ NoRates
    /\ FpcIdle

FetchCall ==
    /\ \E results \in SnapshotResults(valid_pairs) :
          fetch_exchange_rates_parallel(results)
    /\ UNCHANGED <<fpc_vars, consecutive_losses, starting_balance,
                   self_daily_loss_limit, valid_pairs,
                   self_volatility_window, pool, trades, market_session,
                   utc_hour, min_profit_threshold, self_check_interval,
                   trade_lock, opp_age, demo_mode, max_runtime, elapsed, loop,
                   saved>>

SpecSnapshot == SnapshotInit /\ [][FetchCall]_vars

(***************************************************************************)
(* Repeated snapshots on traders configured with different windows.         *)
(***************************************************************************)
\* values of the configuration key volatility_window (trader.py:62)
HistoryWindows == {1, 2, 3}

HistoryCatalog == <<<<"EUR", "USD">>, <<"USD", "EUR">>>>

HistoryInit ==
    /\ \E window \in HistoryWindows :
          ConstructedWith(window, HistoryCatalog, 50000, {}, {FALSE}, {0})
    /\ NoRates
    /\ FpcIdle

SpecHistory == HistoryInit /\ [][FetchCall]_vars

(***************************************************************************)
(* One snapshot, fetch by fetch, on a catalog larger than the thread pool.  *)
(***************************************************************************)
\* ThreadPoolExecutor(max_workers=10) (trader.py:180)
max_workers == 10

\* eleven instruments, one more than the pool has workers
PoolCatalog ==
    <<<<"EUR", "USD">>, <<"EUR", "GBP">>, <<"GBP", "USD">>, <<"USD", "JPY">>,
      <<"EUR", "JPY">>, <<"GBP", "JPY">>, <<"AUD", "USD">>, <<"USD", "CAD">>,
      <<"USD", "CHF">>, <<"EUR", "CHF">>, <<"EUR", "AUD">>>>

\* what get_current_price may return for a pair
PoolAnswers(pair) ==
    IF pair = <<"EUR", "GBP">> THEN {<<>>, <<FlatQuote>>}
    ELSE IF pair = <<"GBP", "USD">> THEN {<<ArbQuote>>}
    ELSE {<<FlatQuote>>}

\* the broker of a snapshot answers the running requests oldest first, or
\* keeps the first request waiting until all the others are answered
PoolLatencies == {"oldest_first", "first_request_last"}

\* the running request that completes next, of total requests to make
MayComplete(requested, in_flight, latency, total) ==
    LET running == SelectSeq(requested, LAMBDA p : p \in in_flight)
    IN  IF running = <<>> THEN {}
        ELSE IF latency = "oldest_first" \/ running[1] # requested[1]
        THEN {running[1]}
        ELSE IF Len(running) > 1 THEN {running[2]}
        ELSE IF Len(requested) = total THEN {running[1]}
        ELSE {}

PoolInit ==
    /\ ConstructedWith(volatility_window, PoolCatalog, 50000, {}, {FALSE}, {0})
    /\ NoRates
    /\ FpcIdle

\* a worker thread is free or can still be created
worker_available_bounded(in_flight) == Cardinality(in_flight) < max_workers
worker_available_unbounded(in_flight) == TRUE
worker_available(in_flight) == worker_available_bounded(in_flight)

\* trader.py:167-180: fetch_exchange_rates_parallel is called and the
\* executor is created
PoolEnter ==
    /\ pool.phase = "idle"
    /\ \E latency \in PoolLatencies :
          pool' = [IdlePool EXCEPT !.phase = "running", !.latency = latency]
    /\ UNCHANGED <<book_vars, fpc_vars, consecutive_losses, starting_balance,
                   self_daily_loss_limit, valid_pairs, self_volatility_window,
                   trades, rate_history, market_session, utc_hour,
                   min_profit_threshold, self_check_interval, trade_lock,
                   opp_age, demo_mode, max_runtime, elapsed, loop, saved>>

\* trader.py:181: executor.submit for the next pair of self.valid_pairs
PoolSubmit ==
    /\ pool.phase = "running"
    /\ pool.next <= Len(valid_pairs)
    /\ pool' = [pool EXCEPT !.queue = Append(@, valid_pairs[pool.next]),
                            !.next = @ + 1]
    /\ UNCHANGED <<book_vars, fpc_vars, consecutive_losses, starting_balance,
                   self_daily_loss_limit, valid_pairs, self_volatility_window,
                   trades, rate_history, market_session, utc_hour,
                   min_profit_threshold, self_check_interval, trade_lock,
                   opp_age, demo_mode, max_runtime, elapsed, loop, saved>>

\* trader.py:172-177: a worker takes the oldest submitted work and calls
\* get_current_price
PoolStart ==
    /\ pool.phase = "running"
    /\ pool.queue # <<>>
    /\ worker_available(pool.in_flight)
    /\ pool' = [pool EXCEPT !.queue = Tail(@),
                            !.in_flight = @ \cup {Head(pool.queue)},
                            !.requested = Append(@, Head(pool.queue))]
    /\ UNCHANGED <<book_vars, fpc_vars, consecutive_losses, starting_balance,
                   self_daily_loss_limit, valid_pairs, self_volatility_window,
                   trades, rate_history, market_session, utc_hour,
                   min_profit_threshold, self_check_interval, trade_lock,
                   opp_age, demo_mode, max_runtime, elapsed, loop, saved>>

\* trader.py:177 and 184-186: a request returns, with a quote or None, and
\* as_completed hands its result to the loop
PoolComplete ==
    /\ pool.phase = "running"
    /\ \E pair \in MayComplete(pool.requested, pool.in_flight, pool.latency,
                                Len(valid_pairs)) :
          \E result \in PoolAnswers(pair) :
             pool' = [pool EXCEPT !.in_flight = @ \ {pair},
                                  !.results = Append(@, <<pair, result>>)]
    /\ UNCHANGED <<book_vars, fpc_vars, consecutive_losses, starting_balance,
                   self_daily_loss_limit, valid_pairs, self_volatility_window,
                   trades, rate_history, market_session, utc_hour,
                   min_profit_threshold, self_check_interval, trade_lock,
                   opp_age, demo_mode, max_runtime, elapsed, loop, saved>>

\* trader.py:184-236: as_completed is exhausted when every future is done;
\* the with block is left and the results are processed
PoolProcess ==
    /\ pool.phase = "running"
    /\ pool.next > Len(valid_pairs)
    /\ Len(pool.results) = Len(valid_pairs)
    /\ fetch_exchange_rates_parallel(pool.results)
    /\ pool' = [pool EXCEPT !.phase = "done"]
    /\ UNCHANGED <<fpc_vars, consecutive_losses, starting_balance,
                   self_daily_loss_limit, valid_pairs, self_volatility_window,
                   trades, market_session, utc_hour,
                   min_profit_threshold, self_check_interval, trade_lock,
                   opp_age, demo_mode, max_runtime, elapsed, loop, saved>>

PoolNext ==
    \/ PoolEnter
    \/ PoolSubmit
    \/ PoolStart
    \/ PoolComplete
    \/ PoolProcess

SpecPool == PoolInit /\ [][PoolNext]_vars

(***************************************************************************)
(* One call of calculate_position_size, on bounded inputs.                  *)
(***************************************************************************)
Sessions == {"london_ny_overlap", "tokyo_london_overlap", "london", "new_york",
             "tokyo", "low_liquidity"}

\* balances on both sides of the tiers' limits, and an empty account
SizingBalances == {0, 500, 999, 1000, 9999, 10000, 50000}

MaxLosses == 5

\* effective profits whose quality cycle_quality * 10 falls below, inside and
\* above the clamp's range
SizingProfits == {R(2, 10000), R(1, 1000), R(2, 1000), R(5, 1000)}

SizingInit ==
    /\ NoRates
    /\ FpcIdle
    /\ consecutive_losses \in 0..MaxLosses
    /\ starting_balance = 50000
    /\ self_daily_loss_limit = daily_loss_limit(starting_balance)
    /\ valid_pairs = catalog_pairs
    /\ self_volatility_window = volatility_window
    /\ pool = IdlePool
    /\ trades = <<>>
    /\ rate_history = [p \in catalog |-> <<>>]
    /\ market_session \in Sessions \cup {"unknown"}
    /\ utc_hour = Never
    /\ min_profit_threshold = config_min_profit_threshold
    /\ self_check_interval = 0
    /\ trade_lock = Free
    /\ opp_age = Never
    /\ demo_mode = FALSE
    /\ max_runtime = 0
    /\ elapsed = 0
    /\ \E profit \in SizingProfits :
          loop = [t \in Loops |->
                    IF t = 1
                    THEN [IdleLoop EXCEPT
                            !.pc = "size_balance",
                            !.best_cycle = [NoCycle EXCEPT
                                              !.effective_profit = profit]]
                    ELSE IdleLoop]
    /\ saved = 0

SizingCall == SizeBalance(1, SizingBalances)

SpecSizing == SizingInit /\ [][SizingCall]_vars

(***************************************************************************)
(* One call of analyze_performance, on bounded inputs.                      *)
(***************************************************************************)
\* values of the configuration key min_profit_threshold that validate_config
\* accepts (config.py:87-89): the default, a larger and a smaller one
ConfigThresholds == {R(1, 1000), R(1, 100), R(5, 10000)}

\* trader.py:143-161: the thresholds adjust_strategy_for_session sets from a
\* configured base
session_thresholds_of(base) ==
    {RMul(base, k) : k \in {R(8, 10), R(9, 10), R(1, 1), R(15, 10)}}

AnalyzeThresholds == UNION {session_thresholds_of(base) : base \in ConfigThresholds}

\* records of completed real executions (trader.py:324-334): a loss, a gain
\* with low slippage and a gain with high slippage
AnalyzeRecords ==
    {[expected_profit |-> R(1, 1000), actual_profit |-> R(-1, 1000),
      slippage |-> R(2, 1000)],
     [expected_profit |-> R(35, 10000), actual_profit |-> R(3, 1000),
      slippage |-> R(5, 10000)],
     [expected_profit |-> R(5, 1000), actual_profit |-> R(3, 1000),
      slippage |-> R(2, 1000)]}

MaxLedger == 6

AnalyzeLedgers == UNION {[1..n -> AnalyzeRecords] : n \in 1..MaxLedger}

\* the trader at trader.py:560: a real execution has just succeeded and its
\* record is the last of the ledger
AnalyzeInit ==
    /\ NoRates
    /\ FpcIdle
    /\ consecutive_losses = 0
    /\ starting_balance = 50000
    /\ self_daily_loss_limit = daily_loss_limit(starting_balance)
    /\ valid_pairs = catalog_pairs
    /\ self_volatility_window = volatility_window
    /\ pool = IdlePool
    /\ trades \in AnalyzeLedgers
    /\ rate_history = [p \in catalog |-> <<>>]
    /\ market_session = "london"
    /\ utc_hour = Never
    /\ min_profit_threshold \in AnalyzeThresholds
    /\ self_check_interval = 0
    /\ trade_lock = Free
    /\ opp_age = Never
    /\ demo_mode = FALSE
    /\ max_runtime = 0
    /\ elapsed = 0
    /\ loop = [t \in Loops |->
                 IF t = 1
                 THEN [IdleLoop EXCEPT
                         !.pc = "analyze",
                         !.search_min_profit = <<min_profit_threshold>>]
                 ELSE IdleLoop]
    /\ saved = 0

\* trader.py:560: self.analyze_performance()
AnalyzeCall ==
    /\ loop[1].pc = "analyze"
    /\ min_profit_threshold' = analyze_performance(trades, min_profit_threshold)
    /\ loop' = [loop EXCEPT ![1].pc = "analyzed"]
    /\ UNCHANGED <<book_vars, fpc_vars, consecutive_losses, starting_balance,
                   self_daily_loss_limit, valid_pairs,
                   self_volatility_window, pool, trades, rate_history,
                   market_session, utc_hour, self_check_interval, trade_lock,
                   opp_age, demo_mode, max_runtime, elapsed, saved>>

SpecAnalyze == AnalyzeInit /\ [][AnalyzeCall]_vars

(***************************************************************************)
(* One call of find_profitable_cycles, on a trader that is not running.     *)
(***************************************************************************)
FpcInit ==
    /\ effective_rates \in EffectiveBooks
    /\ exchange_rates \in RateBooksFor(effective_rates)
    /\ fetched = <<>>
    /\ start_currency = "USD"
    /\ max_cycle_length \in 1..MaxCycleLen
    /\ min_profit \in MinProfits
    /\ profitable_cycles = <<>>
    /\ fpc_pc = "call"
    /\ TraderInit({}, {FALSE}, {0})

FpcCall ==
    /\ fpc_pc = "call"
    /\ \E order \in IterationOrders(currencies_of(exchange_rates)) :
          profitable_cycles' =
              find_profitable_cycles(exchange_rates, effective_rates,
                                     start_currency, max_cycle_length,
                                     min_profit, order)
    /\ fpc_pc' = "done"
    /\ UNCHANGED <<exchange_rates, effective_rates, fetched, start_currency,
                   max_cycle_length, min_profit, trader_vars>>

SpecCycles == FpcInit /\ [][FpcCall]_vars

(***************************************************************************)
(* Properties of find_profitable_cycles (under SpecCycles).                 *)
(***************************************************************************)
Returned == {profitable_cycles[i] : i \in DOMAIN profitable_cycles}

\* the vertices of a cycle after its first: pairs[j][1] for j >= 2
Intermediates(c) == [j \in 1..(Len(c.pairs) - 1) |-> c.pairs[j + 1][1]]

\* the product of the rates of the edges, taken from the last edge down
RECURSIVE EdgeProduct(_, _, _)
EdgeProduct(pairs, er, n) ==
    IF n = 0 THEN RInt(1) ELSE RMul(EdgeProduct(pairs, er, n - 1), er[pairs[n]])

\* C7: every returned cycle has exactly max_cycle_length edges and each of
\* its edges is a key of the effective-rate book.
C7_EdgesInBookExactLength ==
    fpc_pc = "done" =>
        \A c \in Returned :
            /\ Len(c.pairs) = max_cycle_length
            /\ \A j \in DOMAIN c.pairs : c.pairs[j] \in DOMAIN effective_rates

C7_Witness ==
    /\ fpc_pc = "done"
    /\ max_cycle_length = 3
    /\ Len(profitable_cycles) >= 2

\* C8: in every returned cycle the intermediate vertices are pairwise
\* distinct and distinct from the start currency, which appears only at the
\* two ends.
C8_IntermediatesDistinct ==
    fpc_pc = "done" =>
        \A c \in Returned :
            LET mid == Intermediates(c)
            IN  /\ c.pairs[1][1] = start_currency
                /\ c.pairs[Len(c.pairs)][2] = start_currency
                /\ \A i \in DOMAIN mid : mid[i] # start_currency
                /\ \A i, j \in DOMAIN mid : mid[i] = mid[j] => i = j

\* a returned cycle of four edges that passes through the start currency in
\* its middle, in a book without self-edges
C8_Witness ==
    /\ fpc_pc = "done"
    /\ max_cycle_length = 4
    /\ <<"USD", "USD">> \notin DOMAIN effective_rates
    /\ \E c \in Returned :
          c.pairs = <<<<"USD", "EUR">>, <<"EUR", "USD">>,
                      <<"USD", "GBP">>, <<"GBP", "USD">>>>

C10_NonIncreasingProfit ==
    fpc_pc = "done" =>
        \A i, j \in DOMAIN profitable_cycles :
            i < j => RLe(profitable_cycles[j].effective_profit,
                         profitable_cycles[i].effective_profit)

C10_Witness ==
    /\ fpc_pc = "done"
    /\ Len(profitable_cycles) >= 3
    /\ RLt(profitable_cycles[3].effective_profit,
           profitable_cycles[1].effective_profit)

\* the rate book the trader would pass with this effective-rate book: the
\* same keys
SameKeysBook(er) == [p \in DOMAIN er |-> [spread |-> R(2, 10000)]]

CyclesOf(xr, order) ==
    LET found == find_profitable_cycles(xr, effective_rates, start_currency,
                                        max_cycle_length, min_profit, order)
    IN  {found[i] : i \in DOMAIN found}

\* C11: the result depends on the effective-rate book only: any rate book
\* passed with the same effective-rate book gives the same cycles, empty
\* books give the empty list, and every edge of a returned cycle is in the
\* effective-rate book.
C11_RateBookIsMetadata ==
    fpc_pc = "done" =>
        /\ \A xr \in RateBooksFor(effective_rates) :
              \A order \in IterationOrders(currencies_of(xr)) :
                  CyclesOf(xr, order) = Returned
        /\ (DOMAIN exchange_rates = {} /\ DOMAIN effective_rates = {})
              => profitable_cycles = <<>>
        /\ \A c \in Returned :
              \A j \in DOMAIN c.pairs : c.pairs[j] \in DOMAIN effective_rates

\* the call with an empty rate book returns nothing although the
\* effective-rate book holds a cycle that the same call with a rate book over
\* its keys returns
C11_Witness ==
    /\ fpc_pc = "done"
    /\ DOMAIN exchange_rates = {}
    /\ profitable_cycles = <<>>
    /\ \E order \in IterationOrders(Currency) :
          CyclesOf(SameKeysBook(effective_rates), order) # {}

\* the vertex sequences start, v1, ..., v(k-1) with pairwise distinct
\* vertices
SimplePaths(k) ==
    {path \in [1..k -> Currency] :
        /\ path[1] = start_currency
        /\ \A i, j \in 1..k : path[i] = path[j] => i = j}

\* the directed cycle on this path has all its edges in the effective-rate
\* book and an effective profit strictly above min_profit
ProfitableInBook(path) ==
    LET pairs == cycle_pairs_of(path)
    IN  /\ \A j \in DOMAIN pairs : pairs[j] \in DOMAIN effective_rates
        /\ RLt(RAdd(min_profit, RAdd(RInt(1), R(Len(pairs), 10000))),
               EdgeProduct(pairs, effective_rates, Len(pairs)))

TimesReturned(pairs) ==
    Cardinality({i \in DOMAIN profitable_cycles :
                    profitable_cycles[i].pairs = pairs})

\* each edge starts where the previous one ended; the first starts and the
\* last ends at the start currency
Chains(pairs) ==
    /\ pairs # <<>>
    /\ pairs[1][1] = start_currency
    /\ pairs[Len(pairs)][2] = start_currency
    /\ \A j \in 1..(Len(pairs) - 1) : pairs[j][2] = pairs[j + 1][1]

\* the walk of execute_arbitrage_cycle over the legs (trader.py:255-308)
\* never meets a leg that starts in another currency than the one held
RECURSIVE FlowCheckPasses(_, _, _)
FlowCheckPasses(pairs, i, current_currency) ==
    IF i > Len(pairs) THEN TRUE
    ELSE /\ pairs[i][1] = current_currency
         /\ FlowCheckPasses(pairs, i + 1, pairs[i][2])

\* the completeness of the search over the currencies the rate book names
CompleteOverKnownCurrencies ==
    fpc_pc = "done" =>
        \A path \in SimplePaths(max_cycle_length) :
            (/\ ProfitableInBook(path)
             /\ {path[i] : i \in DOMAIN path}
                    \subseteq currencies_of(exchange_rates))
            => TimesReturned(cycle_pairs_of(path)) = 1

\* C40: find_profitable_cycles is complete and duplicate-free: every
\* directed cycle of max_cycle_length edges from the start currency with
\* pairwise distinct vertices, edges in the effective-rate book and an
\* effective profit above min_profit appears exactly once in the result; and
\* the edges of every returned cycle chain from the start currency back to
\* it, so that the currency-flow check of the execution passes on it.
C40_CompleteDuplicateFreeChained ==
    fpc_pc = "done" =>
        /\ \A path \in SimplePaths(max_cycle_length) :
              ProfitableInBook(path)
                  => TimesReturned(cycle_pairs_of(path)) = 1
        /\ \A c \in Returned :
              /\ TimesReturned(c.pairs) = 1
              /\ Chains(c.pairs)
              /\ FlowCheckPasses(c.pairs, 1, c.pairs[1][1])

\* a profitable triangle of the effective-rate book, from the start currency
\* over distinct vertices, that the call does not return because the rate
\* book names no currency
C40_Witness ==
    /\ fpc_pc = "done"
    /\ max_cycle_length = 3
    /\ DOMAIN exchange_rates = {}
    /\ \E path \in SimplePaths(3) :
          /\ ProfitableInBook(path)
          /\ TimesReturned(cycle_pairs_of(path)) = 0

\* the parts of C40 that do not depend on the rate book: no cycle is
\* returned twice and every returned cycle chains and passes the flow check
DuplicateFreeChained ==
    fpc_pc = "done" =>
        \A c \in Returned :
            /\ TimesReturned(c.pairs) = 1
            /\ Chains(c.pairs)
            /\ FlowCheckPasses(c.pairs, 1, c.pairs[1][1])

(***************************************************************************)
(* Properties of the control loop (under Spec, one loop).                   *)
(***************************************************************************)
the_loop == loop[1]

LastTrade(ledger) == ledger[Len(ledger)]

Positive(x) == x[1] > 0

\* C1: a step that appends a TradeRecord leaves consecutive_losses at 0 when
\* the record's actual_profit is above 0, and at its previous value plus 1
\* otherwise; the counter is 0 after an insertion only in the first case.
C1_CounterFollowsRecord ==
    [][Len(trades') = Len(trades) + 1 =>
          /\ SubSeq(trades', 1, Len(trades)) = trades
          /\ consecutive_losses' =
                 IF Positive(LastTrade(trades').actual_profit) THEN 0
                 ELSE consecutive_losses + 1
          /\ consecutive_losses' = 0 <=> Positive(LastTrade(trades').actual_profit)
      ]_vars

\* a real execution won, the next one did not
C1_Witness ==
    /\ ~demo_mode
    /\ Len(trades) = 2
    /\ Positive(trades[1].actual_profit)
    /\ ~Positive(trades[2].actual_profit)
    /\ consecutive_losses = 1
    /\ the_loop.tick_records = 1

\* C2: a tick that reaches the gate with consecutive_losses at or above
\* max_consecutive_losses is refused there, before the balance, the ledger
\* or the session is looked at.
C2_LossBreakerRefuses ==
    [][(/\ the_loop.pc = "fetching"
        /\ the_loop'.pc # "fetching"
        /\ consecutive_losses >= 3)
          => /\ the_loop'.gate = "refused"
             /\ the_loop'.refused_by = "consecutive_losses"
             /\ the_loop'.current_balance = <<>>
      ]_vars

\* refused in a liquid session, on three losing records of ordinary slippage
C2_Witness ==
    /\ consecutive_losses = 3
    /\ the_loop.gate = "refused"
    /\ the_loop.refused_by = "consecutive_losses"
    /\ market_session = "london_ny_overlap"
    /\ Len(trades) = 3
    /\ \A i \in DOMAIN trades : RLe(trades[i].slippage, R(2, 1000))

\* the balance check_circuit_breakers was given in this tick, before any
\* record of the tick
BalanceKnown ==
    /\ the_loop.current_balance # <<>>
    /\ the_loop.tick_records = 0

DailyLossExceeds ==
    (starting_balance - the_loop.current_balance[1]) * 100 > starting_balance * 5

\* C3: once the balance is known (the loss gate has passed), the tick is
\* refused for the daily loss exactly when starting_balance - current_balance
\* is strictly above 5% of starting_balance.
C3_DailyLossStrict ==
    BalanceKnown =>
        /\ the_loop.tick_losses < 3
        /\ the_loop.refused_by = "daily_loss" <=> DailyLossExceeds

\* a loss equal to the limit passed the daily-loss gate
C3_Witness ==
    /\ BalanceKnown
    /\ (starting_balance - the_loop.current_balance[1]) * 100 = starting_balance * 5
    /\ the_loop.gate = "passed"

\* 1000 times the sum of the slippages of the last n records, against 3 n
RECURSIVE SlippageSum(_, _)
SlippageSum(ledger, n) ==
    IF n = 0 THEN RInt(0)
    ELSE RAdd(ledger[Len(ledger) + 1 - n].slippage, SlippageSum(ledger, n - 1))

MeanSlippageAbove(ledger, n) ==
    RLt(R(3 * n, 1000), SlippageSum(ledger, n))

Smaller(a, b) == IF a < b THEN a ELSE b

\* C4 (amended): with no record the slippage gate passes; otherwise it passes
\* exactly when the mean slippage of the last min(3, n) records is at most
\* 0.003.
C4_SlippageRecentMean ==
    (BalanceKnown /\ ~DailyLossExceeds) =>
        (the_loop.refused_by = "slippage" <=>
            (/\ trades # <<>>
             /\ MeanSlippageAbove(trades, Smaller(3, Len(trades)))))

\* C4 as stated: the gate passes whenever fewer than 3 records exist, and with
\* 3 or more exactly when the mean of the last 3 is at most 0.003.
C4_AsStated ==
    (BalanceKnown /\ ~DailyLossExceeds) =>
        (the_loop.refused_by = "slippage" <=>
            (Len(trades) >= 3 /\ MeanSlippageAbove(trades, 3)))

\* the gate refuses on two records
C4_Witness ==
    /\ BalanceKnown
    /\ Len(trades) = 2
    /\ the_loop.refused_by = "slippage"

\* C5: a refused tick submits no order, appends no record and leaves the
\* counter alone; it ends in a sleep longer than the normal one, from which
\* the loop can go round to its head.
C5_RefusedTickOnlySleeps ==
    the_loop.gate = "refused" =>
        /\ the_loop.tick_orders = <<>>
        /\ the_loop.tick_records = 0
        /\ ~the_loop.executing
        /\ consecutive_losses = the_loop.tick_losses
        /\ the_loop.pc = "sleep"
        /\ the_loop.sleep_for > check_interval
        /\ ENABLED (Wake(1) /\ loop'[1].pc = "loop_head")

\* a tick refused by the session gate while an opportunity is in the book
C5_Witness ==
    /\ the_loop.gate = "refused"
    /\ the_loop.refused_by = "session"
    /\ Len(trades) >= 1
    /\ the_loop.pc = "sleep"

\* the execution of this tick aborted on a rejected order or an invalid fill
OrderAborted ==
    the_loop.error \in {"Order failed", "Invalid execution details"}

\* C12: quotes and orders follow the cycle's legs in order, the quote of a
\* leg is asked only after every earlier leg's fill was validated, and once
\* the execution has aborted no quote is asked and no order is placed until
\* the tick is over.
C12_LegsInOrderStopAtAbort ==
    /\ [](LET pairs == the_loop.best_cycle.pairs
              quotes == the_loop.tick_quotes
              orders == the_loop.tick_orders
              fills == the_loop.results_trades
          IN  /\ \A i \in DOMAIN quotes : i <= Len(pairs) /\ quotes[i] = pairs[i]
              /\ \A i \in DOMAIN orders : i <= Len(pairs) /\ orders[i][1] = pairs[i]
              /\ Len(fills) <= Len(orders)
              /\ Len(orders) <= Len(quotes)
              /\ Len(quotes) <= Len(fills) + 1)
    /\ [][~the_loop.success =>
             \/ /\ the_loop'.tick_quotes = the_loop.tick_quotes
                /\ the_loop'.tick_orders = the_loop.tick_orders
             \/ /\ the_loop'.tick_quotes = <<>>
                /\ the_loop'.tick_orders = <<>>
                /\ the_loop'.pc \in {"loop_head", "finally"}
         ]_vars

\* the third leg's order was rejected after two legs were filled: three
\* orders, all of the cycle, and the loop is in its sleep
C12_Witness ==
    /\ the_loop.error = "Order failed"
    /\ Len(the_loop.results_trades) = 2
    /\ Len(the_loop.tick_orders) = 3
    /\ the_loop.pc = "sleep"

\* C13: an execution that aborted on a rejected order or an invalid fill is
\* marked failed and has incremented consecutive_losses by exactly 1 over
\* its value at the start of the tick.
C13_AbortCountsAsLoss ==
    OrderAborted =>
        /\ ~the_loop.success
        /\ consecutive_losses = the_loop.tick_losses + 1

\* the first leg's order was rejected and the counter is what it was when
\* the tick started
C13_Witness ==
    /\ the_loop.error = "Order failed"
    /\ the_loop.results_trades = <<>>
    /\ ~the_loop.success
    /\ the_loop.pc = "sleep"
    /\ consecutive_losses = the_loop.tick_losses

\* C14: an execution that aborted on a rejected order or an invalid fill has
\* appended a TradeRecord exactly when an earlier leg of the cycle had been
\* filled.
C14_AbortRecordedIffLegFilled ==
    OrderAborted =>
        (the_loop.tick_records = 1 <=> the_loop.results_trades # <<>>)

\* the second leg's fill was invalid after the first leg was filled, and the
\* tick appended nothing to the ledger
C14_Witness ==
    /\ the_loop.error = "Invalid execution details"
    /\ Len(the_loop.results_trades) = 1
    /\ the_loop.pc = "sleep"
    /\ the_loop.tick_records = 0

\* every leg of the cycle of this tick was filled by the broker
AllLegsFilled ==
    /\ the_loop.results_trades # <<>>
    /\ Len(the_loop.results_trades) = Len(the_loop.best_cycle.pairs)

\* C15: when every leg of the cycle was filled the tick has appended exactly
\* one TradeRecord, whose expected_profit is the cycle's effective_profit,
\* whose actual_profit is final_amount / amount - 1 and whose slippage is
\* expected_profit - actual_profit, with final_amount the last fill's
\* units * price and the result's profit final_amount - amount.
C15_CompletedCycleRecord ==
    AllLegsFilled =>
        LET last_fill == the_loop.results_trades[Len(the_loop.results_trades)]
            amount == the_loop.position_size
            final_amount == RMul(last_fill.units, last_fill.price)
            actual == RSub(RDiv(final_amount, amount), RInt(1))
            record == LastTrade(trades)
        IN  /\ the_loop.tick_records = 1
            /\ trades # <<>>
            /\ record.expected_profit = the_loop.best_cycle.effective_profit
            /\ record.actual_profit = actual
            /\ record.slippage = RSub(record.expected_profit, actual)
            /\ the_loop.current_amount = final_amount
            /\ the_loop.profit = RSub(final_amount, amount)

\* a completed cycle whose last fill was above the quoted price: the record
\* has a realised profit above the expected one
C15_Witness ==
    /\ AllLegsFilled
    /\ Len(the_loop.results_trades) = 3
    /\ RLt(the_loop.best_cycle.effective_profit, LastTrade(trades).actual_profit)
    /\ Positive(the_loop.profit)

\* the record's slippage is its expected profit less its actual profit
SlippageIsDifference(record) ==
    record.slippage = RSub(record.expected_profit, record.actual_profit)

\* C16: every TradeRecord of the ledger, real or simulated, has
\* slippage = expected_profit - actual_profit.
C16_SlippageIsDifference ==
    \A i \in DOMAIN trades : SlippageIsDifference(trades[i])

\* a simulated record whose drawn slippage is above the expected profit and
\* whose actual profit is 0, next to one whose slippage is the difference
C16_Witness ==
    /\ demo_mode
    /\ \E i \in DOMAIN trades :
          /\ RLt(trades[i].expected_profit, trades[i].slippage)
          /\ trades[i].actual_profit = RInt(0)
    /\ \E i \in DOMAIN trades :
          /\ SlippageIsDifference(trades[i])
          /\ Positive(trades[i].actual_profit)

\* C17: in demo mode no quote for a leg is asked and no order is placed; a
\* simulated trade appends one TradeRecord per tick, every record has
\* actual_profit = max(0, expected_profit - slippage) and so none is below
\* 0, and the counter after the simulated trade is 0 when actual_profit is
\* above 0 and its value at the start of the tick plus 1 otherwise.
C17_DemoNeverOrders ==
    demo_mode =>
        /\ the_loop.tick_orders = <<>>
        /\ the_loop.results_trades = <<>>
        /\ the_loop.pc \notin {"leg_price", "leg_order"}
        /\ \A i \in DOMAIN trades :
              /\ trades[i].actual_profit =
                     RMax(RInt(0), RSub(trades[i].expected_profit,
                                        trades[i].slippage))
              /\ RLe(RInt(0), trades[i].actual_profit)
        /\ the_loop.tick_records <= 1
        /\ the_loop.executing =>
              /\ the_loop.tick_records = 1
              /\ trades # <<>>
              /\ consecutive_losses =
                     IF Positive(LastTrade(trades).actual_profit) THEN 0
                     ELSE the_loop.tick_losses + 1

\* a simulated trade clamped to 0 that followed a simulated loss: the
\* counter went from 1 to 2 without any order
C17_Witness ==
    /\ demo_mode
    /\ the_loop.executing
    /\ the_loop.tick_records = 1
    /\ LastTrade(trades).actual_profit = RInt(0)
    /\ the_loop.tick_losses = 1
    /\ consecutive_losses = 2

(***************************************************************************)
(* Properties of the session adjustment (under SpecSession).               *)
(***************************************************************************)
\* the session of each hour of the day, hour by hour
SessionOfHour ==
    [h \in 0..23 |->
        IF h \in 13..15 THEN "london_ny_overlap"
        ELSE IF h = 8 THEN "tokyo_london_overlap"
        ELSE IF h \in 9..12 THEN "london"
        ELSE IF h \in 16..21 THEN "new_york"
        ELSE IF h \in 0..7 THEN "tokyo"
        ELSE "low_liquidity"]

\* C18: after a session adjustment the session is the one tag of the hour's
\* row: 13..15 london_ny_overlap, 8 tokyo_london_overlap, 9..12 london,
\* 16..21 new_york, 0..7 tokyo, 22 and 23 low_liquidity.
C18_SessionOfHour ==
    utc_hour # Never =>
        /\ utc_hour \in 0..23
        /\ market_session = SessionOfHour[utc_hour]

\* hour 8, where tokyo and london are both open
C18_Witness ==
    /\ utc_hour = 8
    /\ market_session = "tokyo_london_overlap"
    /\ the_loop.pc = "fetching"

\* the threshold of each session for the base threshold 0.001
ThresholdOfSession(session) ==
    CASE session = "london_ny_overlap" -> R(8, 10000)
      [] session = "tokyo_london_overlap" -> R(9, 10000)
      [] session \in {"london", "new_york"} -> R(1, 1000)
      [] session \in {"tokyo", "low_liquidity"} -> R(15, 10000)

\* C19: between the session adjustment of a tick and its search the
\* trader's threshold is the session's factor times the base threshold, and
\* the min_profit the search of the tick was called with is that value,
\* whatever the threshold was when the tick began.
C19_SearchThresholdOfSession ==
    /\ the_loop.pc \in {"fetching", "gate_balance"} =>
           min_profit_threshold = ThresholdOfSession(SessionOfHour[utc_hour])
    /\ the_loop.search_min_profit # <<>> =>
           the_loop.search_min_profit[1] =
               ThresholdOfSession(SessionOfHour[utc_hour])

\* a tick that began with a threshold the performance analysis had moved
\* off every session's value, and searched with its session's value
C19_Witness ==
    /\ the_loop.search_min_profit # <<>>
    /\ the_loop.prior_threshold # <<>>
    /\ \A h \in 0..23 :
          the_loop.prior_threshold[1] # ThresholdOfSession(SessionOfHour[h])
    /\ market_session = "london"
    /\ the_loop.search_min_profit[1] = R(1, 1000)

\* the check interval of each session, in seconds
IntervalOfSession(session) ==
    CASE session = "london_ny_overlap" -> 1
      [] session = "tokyo_london_overlap" -> 2
      [] session \in {"london", "new_york"} -> 3
      [] session \in {"tokyo", "low_liquidity"} -> 5

\* C20: the sleep that ends a tick lasts the check interval the session
\* adjustment of that tick computed: 1, 2, 3 or 5 seconds by session.
C20_SleepIsSessionInterval ==
    the_loop.pc = "sleep" =>
        /\ self_check_interval = IntervalOfSession(SessionOfHour[utc_hour])
        /\ the_loop.sleep_for = self_check_interval

\* a tick of the london/new york overlap that traded: the adjustment
\* computed 1 second, the loop sleeps twice run()'s check_interval
C20_Witness ==
    /\ the_loop.pc = "sleep"
    /\ the_loop.executing
    /\ market_session = "london_ny_overlap"
    /\ self_check_interval = 1
    /\ the_loop.sleep_for = 2 * check_interval

(***************************************************************************)
(* Properties of the snapshot (under SpecSnapshot).                        *)
(***************************************************************************)
Listed == {valid_pairs[i] : i \in DOMAIN valid_pairs}

Reverse(pair) == <<pair[2], pair[1]>>

\* the catalog pairs whose fetch of the last snapshot returned a quote
Quoted == {fetched[i][1] : i \in {j \in DOMAIN fetched : fetched[j][2] # <<>>}}

\* the quote the last snapshot fetched for a pair of Quoted
QuoteOf(pair) ==
    LET i == CHOOSE j \in DOMAIN fetched : fetched[j][1] = pair
    IN  fetched[i][2][1]

\* C22: after a snapshot the effective rate of every catalog pair with a
\* quote is the ask of that quote, whether or not the reverse pair is in
\* the catalog, and the effective rate of the reverse of such a pair is
\* 1/bid of the quote when the reverse pair is not in the catalog.
C22_CatalogAskAuthoritative ==
    \A pair \in Quoted :
        /\ pair \in DOMAIN effective_rates
        /\ effective_rates[pair] = QuoteOf(pair).ask
        /\ Reverse(pair) \notin Listed =>
              /\ Reverse(pair) \in DOMAIN effective_rates
              /\ effective_rates[Reverse(pair)] =
                     RDiv(RInt(1), QuoteOf(pair).bid)

\* EUR_USD and USD_EUR are both listed and both quoted, and the effective
\* rate of one of them is 1/bid of the other, not its own ask
C22_Witness ==
    /\ {<<"EUR", "USD">>, <<"USD", "EUR">>} \subseteq Quoted
    /\ \E pair \in {<<"EUR", "USD">>, <<"USD", "EUR">>} :
          /\ effective_rates[pair] # QuoteOf(pair).ask
          /\ effective_rates[pair] = RDiv(RInt(1), QuoteOf(Reverse(pair)).bid)

\* C23: after a snapshot the rate book holds a pair that is not in the
\* catalog exactly when the reverse, catalog pair was quoted in it; that
\* entry is synthetic with bid = 1/ask and ask = 1/bid of the catalog quote
\* (so bid * ask and ask * bid across the two are 1); and a catalog pair in
\* the book holds its own fetched quote, never a synthetic one.
C23_SyntheticInverses ==
    /\ \A pair \in Quoted :
          Reverse(pair) \notin Listed => Reverse(pair) \in DOMAIN exchange_rates
    /\ \A pair \in DOMAIN exchange_rates :
          IF pair \in Listed
          THEN /\ pair \in Quoted
               /\ exchange_rates[pair] = QuoteOf(pair)
               /\ ~exchange_rates[pair].synthetic
          ELSE /\ Reverse(pair) \in Quoted
               /\ exchange_rates[pair].synthetic
               /\ exchange_rates[pair].bid =
                      RDiv(RInt(1), QuoteOf(Reverse(pair)).ask)
               /\ exchange_rates[pair].ask =
                      RDiv(RInt(1), QuoteOf(Reverse(pair)).bid)
               /\ RMul(exchange_rates[pair].bid, QuoteOf(Reverse(pair)).ask)
                      = RInt(1)
               /\ RMul(exchange_rates[pair].ask, QuoteOf(Reverse(pair)).bid)
                      = RInt(1)

\* GBP_USD quoted with a spread next to EUR_USD and USD_EUR, both listed and
\* quoted: USD_GBP is the only synthetic entry
C23_Witness ==
    /\ {<<"EUR", "USD">>, <<"USD", "EUR">>, <<"GBP", "USD">>} \subseteq Quoted
    /\ QuoteOf(<<"GBP", "USD">>) = ArbQuote
    /\ DOMAIN exchange_rates = Quoted \cup {<<"USD", "GBP">>}
    /\ exchange_rates[<<"USD", "GBP">>].bid = R(10000, 10023)

\* the catalog pairs a list of results has a quote for
QuotedIn(results) ==
    {results[i][1] : i \in {j \in DOMAIN results : results[j][2] # <<>>}}

\* C24 (under Spec): after a snapshot a catalog pair whose fetch failed in
\* it is in neither book, whatever the books held before, and the books the
\* search of a tick was called with hold, of the catalog pairs, exactly
\* those quoted by the fetches of that tick, with those quotes.
C24_BooksRebuiltEachTick ==
    /\ \A pair \in Listed \ Quoted :
          /\ pair \notin DOMAIN exchange_rates
          /\ pair \notin DOMAIN effective_rates
    /\ the_loop.search_books # <<>> =>
          LET rates == the_loop.search_books[1]
              effective == the_loop.search_books[2]
              results == the_loop.tick_fetched
          IN  /\ DOMAIN rates \cap Listed = QuotedIn(results)
              /\ DOMAIN effective \cap Listed = QuotedIn(results)
              /\ \A i \in DOMAIN results :
                    results[i][2] # <<>> =>
                        rates[results[i][1]] = results[i][2][1]

\* EUR_GBP was quoted in an earlier tick (its history is not empty) and its
\* fetch failed in this one: the search ran on books without it
C24_Witness ==
    /\ the_loop.search_books # <<>>
    /\ rate_history[<<"EUR", "GBP">>] # <<>>
    /\ <<"EUR", "GBP">> \notin QuotedIn(the_loop.tick_fetched)
    /\ <<"EUR", "GBP">> \notin DOMAIN the_loop.search_books[1]
    /\ <<"EUR", "GBP">> \notin DOMAIN the_loop.search_books[2]

(***************************************************************************)
(* Properties of the position size (under SpecSizing).                     *)
(***************************************************************************)
Sized ==
    /\ the_loop.pc = "acquire"
    /\ the_loop.account_balance # <<>>

\* balance * tier * session factor * quality * confidence, in ten-millionths
\* (percent * tenths * tenths * tenths of the factors)
RawSizeScaled(balance, session, profit, losses) ==
    LET tier == IF balance < 1000 THEN 1 ELSE IF balance < 10000 THEN 2 ELSE 3
        by_session ==
            CASE session = "london_ny_overlap" -> 12
              [] session = "tokyo_london_overlap" -> 11
              [] session = "tokyo" -> 8
              [] session = "low_liquidity" -> 5
              [] OTHER -> 10
        quality == IF RLt(RMul(profit, RInt(1000)), R(5, 10)) THEN R(5, 1)
                   ELSE IF RLt(RInt(2), RMul(profit, RInt(1000))) THEN R(20, 1)
                   ELSE RMul(profit, RInt(10000))
        confidence == IF 10 - 2 * losses < 5 THEN 5 ELSE 10 - 2 * losses
    IN  RMul(RInt(balance * tier), RMul(RInt(by_session * confidence), quality))

SnapshotFetchFailed ==
    \E i \in DOMAIN the_loop.tick_fetched : the_loop.tick_fetched[i][2] = <<>>

\* the execution of the tick stopped on a missing price, a rejected order or
\* an invalid fill
ExecutionFailed ==
    the_loop.error \in {"Price data unavailable", "Order failed",
                        "Invalid execution details"}

\* C26: a tick in which a fetch of the snapshot returned None, or whose
\* execution stopped on a missing price, a rejected order or an invalid
\* fill, does not leave the loop: it is never in the finally block or
\* stopped, a failed execution is in its sleep, and from the sleep of such a
\* tick the loop can go round to its head.
C26_FailedTickKeepsLooping ==
    (SnapshotFetchFailed \/ ExecutionFailed) =>
        /\ the_loop.pc \notin {"finally", "stopped"}
        /\ ExecutionFailed => the_loop.pc = "sleep"
        /\ the_loop.pc = "sleep" =>
               ENABLED (Wake(1) /\ loop'[1].pc = "loop_head")

\* the price of the second leg was not available, after the first leg was
\* filled, and the loop is in its sleep
C26_Witness ==
    /\ the_loop.error = "Price data unavailable"
    /\ Len(the_loop.results_trades) = 1
    /\ the_loop.pc = "sleep"
    /\ ~SnapshotFetchFailed

(***************************************************************************)
(* Properties of the session gate (under SpecSession).                     *)
(***************************************************************************)
LiquidSessions ==
    {"london_ny_overlap", "tokyo_london_overlap", "london", "new_york"}

QuietSessions == {"tokyo", "low_liquidity"}

\* the step in which should_trade_now is evaluated with the balance it read
GateStep ==
    /\ the_loop.pc = "gate_balance"
    /\ the_loop'.pc # "gate_balance"

\* neither the daily-loss breaker nor the slippage breaker trips on the
\* balance read in the step (the loss breaker has passed before the balance
\* is read)
BreakersPassInStep ==
    /\ ~((starting_balance - the_loop'.current_balance[1]) * 100 >
             starting_balance * 5)
    /\ ~(trades # <<>> /\ MeanSlippageAbove(trades, Smaller(3, Len(trades))))

RecentOpportunity == opp_age # Never /\ opp_age < 300

\* C27: with all circuit breakers passing, the gate lets a tick of the tokyo
\* and low_liquidity sessions proceed exactly when an opportunity was observed
\* less than 300 seconds ago, and lets every tick of the four liquid sessions
\* proceed.
C27_SessionGate ==
    [][(GateStep /\ BreakersPassInStep) =>
          /\ market_session \in LiquidSessions =>
                 the_loop'.gate = "passed"
          /\ market_session \in QuietSessions =>
                 /\ the_loop'.gate = "passed" <=> RecentOpportunity
                 /\ the_loop'.gate = "refused" <=> ~RecentOpportunity
                 /\ the_loop'.gate = "refused" =>
                        the_loop'.refused_by = "session"]_vars

\* a tokyo tick went on to the search on an opportunity seen 200 seconds
\* before
C27_Witness ==
    /\ market_session = "tokyo"
    /\ the_loop.gate = "passed"
    /\ the_loop.pc = "sleep"
    /\ the_loop.best_cycle = NoCycle
    /\ opp_age = 200

(***************************************************************************)
(* Properties of the fields fixed at construction (under Spec).            *)
(***************************************************************************)
\* C28: no step of the trader (tick, snapshot, gate evaluation, sizing,
\* execution, simulation, shutdown) changes starting_balance,
\* daily_loss_limit or the valid-pair set.
C28_FixedAtConstruction ==
    [][/\ starting_balance' = starting_balance
       /\ self_daily_loss_limit' = self_daily_loss_limit
       /\ valid_pairs' = valid_pairs]_vars

\* run() has returned after at least one trade was recorded, and the three
\* fields hold what the constructor gave them
C28_Witness ==
    /\ the_loop.pc = "stopped"
    /\ trades # <<>>
    /\ starting_balance = 50000
    /\ self_daily_loss_limit = daily_loss_limit(50000)
    /\ valid_pairs = catalog_pairs

(***************************************************************************)
(* Properties of the ledger as a list (under Spec).                        *)
(***************************************************************************)
GrownAtEnd(before, after) ==
    /\ Len(after) = Len(before) + 1
    /\ SubSeq(after, 1, Len(before)) = before

\* C29: every step leaves the list of TradeRecords as it is or adds one
\* record at its end, the records already present staying in place and
\* unchanged; the steps that only read it (the gate, which calls
\* get_recent_trades, and the shutdown, whose save_data calls
\* calculate_metrics) leave it unchanged.
C29_LedgerAppendOnly ==
    [][/\ trades' = trades \/ GrownAtEnd(trades, trades')
       /\ the_loop.pc \in {"gate_balance", "finally"} => trades' = trades]_vars

\* three records, the first and the last of them different, are in the
\* ledger after the shutdown
C29_Witness ==
    /\ Len(trades) = 3
    /\ trades[1] # trades[3]
    /\ the_loop.pc = "stopped"

(***************************************************************************)
(* Properties of the submitted orders (under SpecAccounts).                *)
(***************************************************************************)
\* n is the truncation toward zero of the absolute value of the rational x
TruncatedAbs(n, x) ==
    LET num == IF x[1] < 0 THEN -x[1] ELSE x[1]
    IN  /\ n >= 0
        /\ n * x[2] <= num
        /\ num < (n + 1) * x[2]

\* the amount an order was asked for: cur_amount on a leg that starts in
\* USD, cur_amount / mid on any other
Requested(order) ==
    IF order[1][1] = "USD" THEN order[4] ELSE RDiv(order[4], order[5])

OrdersTruncated ==
    \A i \in DOMAIN the_loop.tick_orders :
        TruncatedAbs(the_loop.tick_orders[i][3],
                     Requested(the_loop.tick_orders[i]))

\* C30: every submitted order carries the truncation toward zero of the
\* absolute value of the requested amount, and that count is strictly
\* positive.
C30_OrderUnitsPositive ==
    /\ OrdersTruncated
    /\ \A i \in DOMAIN the_loop.tick_orders : the_loop.tick_orders[i][3] > 0

\* an order of 0 units was submitted on an account without money
C30_Witness ==
    /\ starting_balance = 0
    /\ the_loop.tick_orders # <<>>
    /\ the_loop.tick_orders[1][3] = 0
    /\ OrdersTruncated

(***************************************************************************)
(* Properties of the adaptive adjustment (under SpecAnalyze and Spec).     *)
(***************************************************************************)
RecentCount == Smaller(5, Len(trades))

RECURSIVE ProfitSum(_, _)
ProfitSum(ledger, n) ==
    IF n = 0 THEN RInt(0)
    ELSE RAdd(ledger[Len(ledger) + 1 - n].actual_profit, ProfitSum(ledger, n - 1))

\* the mean actual_profit of the last up to 5 records is below 0
MeanProfitNegative == RLt(ProfitSum(trades, RecentCount), RInt(0))

\* the mean actual_profit is above 0.002 and the mean slippage below 0.001
MeanProfitHighSlippageLow ==
    /\ RLt(R(2 * RecentCount, 1000), ProfitSum(trades, RecentCount))
    /\ RLt(SlippageSum(trades, RecentCount), R(RecentCount, 1000))

\* a step changes the threshold only at the start of a tick or when a real
\* execution completes and its record is appended
AdjustmentOnlyAfterRealSuccess ==
    [][min_profit_threshold' # min_profit_threshold =>
          \/ the_loop.pc = "loop_head"
          \/ /\ ~demo_mode
             /\ the_loop.pc = "leg_order"
             /\ the_loop'.success
             /\ Len(trades') = Len(trades) + 1]_vars

\* C31: after analyze_performance, with m the mean actual_profit and s the
\* mean slippage of the last up to 5 records and t the threshold before the
\* call, the threshold is min(0.005, t*1.2) and not below t if m < 0, is
\* max(0.0008, t*0.9) and not above t if m > 0.002 and s < 0.001, and is t
\* otherwise.
C31_AdaptiveAdjustment ==
    the_loop.pc = "analyzed" =>
        LET before == the_loop.search_min_profit[1]
        IN  IF MeanProfitNegative
            THEN /\ min_profit_threshold = RMin(R(5, 1000), RMul(before, R(12, 10)))
                 /\ RLe(before, min_profit_threshold)
            ELSE IF MeanProfitHighSlippageLow
            THEN /\ min_profit_threshold = RMax(R(8, 10000), RMul(before, R(9, 10)))
                 /\ RLe(min_profit_threshold, before)
            ELSE min_profit_threshold = before

\* the mean profit is negative and a threshold of 0.015 has become 0.005
C31_Witness ==
    /\ the_loop.pc = "analyzed"
    /\ MeanProfitNegative
    /\ the_loop.search_min_profit[1] = R(15, 1000)
    /\ min_profit_threshold = R(5, 1000)

(***************************************************************************)
(* Properties of the rate history (under SpecHistory).                     *)
(***************************************************************************)
\* the last n entries of a list
LastN(n, list) ==
    IF Len(list) > n THEN SubSeq(list, Len(list) - n + 1, Len(list)) ELSE list

\* the answer to the fetch of a pair in a list of results
AnswerIn(results, pair) ==
    results[CHOOSE i \in DOMAIN results : results[i][1] = pair][2]

\* C32: the history of every catalog pair has at most volatility_window
\* entries; a snapshot in which the pair's quote failed leaves its history
\* unchanged, and one in which it succeeded makes it the last
\* volatility_window entries of the old history followed by the new mid, so
\* that the history holds the most recent successful mids in fetch order.
C32_RateHistoryBounded ==
    /\ [](\A p \in DOMAIN rate_history :
              Len(rate_history[p]) <= self_volatility_window)
    /\ [][\A p \in DOMAIN rate_history :
              IF AnswerIn(fetched', p) = <<>>
              THEN rate_history'[p] = rate_history[p]
              ELSE rate_history'[p] =
                       LastN(self_volatility_window,
                             Append(rate_history[p], AnswerIn(fetched', p)[1].mid))
         ]_vars

\* with a window of 2, EUR_USD holds its two most recent mids in fetch order
\* and USD_EUR, whose quote failed in the last snapshot, has kept its own
C32_Witness ==
    /\ self_volatility_window = 2
    /\ fetched # <<>>
    /\ rate_history[<<"EUR", "USD">>] = <<FlatQuote.mid, ArbQuote.mid>>
    /\ AnswerIn(fetched, <<"USD", "EUR">>) = <<>>
    /\ rate_history[<<"USD", "EUR">>] = <<ArbQuote.mid, ArbQuote.mid>>

(***************************************************************************)
(* Properties of the thread pool of a snapshot (under SpecPool).           *)
(***************************************************************************)
\* the number of requests made for a pair
RequestsOf(pair) ==
    Cardinality({i \in DOMAIN pool.requested : pool.requested[i] = pair})

\* every request made has returned
AllFetchesOver ==
    /\ pool.queue = <<>>
    /\ pool.in_flight = {}
    /\ \A i \in DOMAIN valid_pairs :
          /\ RequestsOf(valid_pairs[i]) = 1
          /\ \E j \in DOMAIN pool.results : pool.results[j][1] = valid_pairs[i]

\* C33: in a snapshot no pair's quote is requested twice and at most 10
\* requests are in flight; the rate books change only in a step taken when
\* every valid pair was requested exactly once and every request has
\* completed or failed.
C33_SnapshotBarrier ==
    /\ [](/\ Cardinality(pool.in_flight) <= 10
          /\ \A i \in DOMAIN valid_pairs : RequestsOf(valid_pairs[i]) <= 1
          /\ pool.phase = "done" => AllFetchesOver)
    /\ [][<<exchange_rates, effective_rates>>' # <<exchange_rates, effective_rates>>
             => AllFetchesOver]_vars

\* ten requests are in flight, the eleventh waits for a worker, and no book
\* has been built
C33_Witness ==
    /\ Cardinality(pool.in_flight) = 10
    /\ Len(pool.queue) = 1
    /\ exchange_rates = <<>>

(***************************************************************************)
(* Properties of the completion order (under SpecSnapshot).                *)
(***************************************************************************)
\* the same results in every order
Reorderings(results) ==
    {[i \in DOMAIN results |-> results[f[i]]] :
        f \in {g \in [DOMAIN results -> DOMAIN results] :
                  \A i, j \in DOMAIN results : g[i] = g[j] => i = j}}

\* the two books the result loop builds from a list of results
BooksOf(results) ==
    LET acc == process_results(results, 1,
                  [rates |-> <<>>, order |-> <<>>, history |-> rate_history],
                  Listed)
    IN  <<acc.rates, derive_effective_rates(acc.rates, acc.order, 1, <<>>)>>

\* C34: the rate book and the effective-rate book of a snapshot are those
\* that every other completion order of the same quotes would have given,
\* also when both directions of a pair are catalog instruments.
C34_OrderIndependentBooks ==
    fetched # <<>> =>
        \A results \in Reorderings(fetched) :
            BooksOf(results) = <<exchange_rates, effective_rates>>

\* EUR_USD and USD_EUR are both listed and quoted; the reversed completion
\* order gives the same rate book and another effective-rate book
C34_Witness ==
    /\ {<<"EUR", "USD">>, <<"USD", "EUR">>} \subseteq Quoted
    /\ \E results \in Reorderings(fetched) :
          /\ BooksOf(results)[1] = exchange_rates
          /\ BooksOf(results)[2] # effective_rates

\* the books of a catalog that lists no pair in both directions do not
\* depend on the completion order
OrderIndependentOneDirection ==
    (fetched # <<>> /\ \A pair \in Listed : Reverse(pair) \notin Listed) =>
        \A results \in Reorderings(fetched) :
            BooksOf(results) = <<exchange_rates, effective_rates>>

C36_LossBreakerLatches ==
    [][consecutive_losses = 3 =>
          /\ consecutive_losses' = 3
          /\ trades' = trades
          /\ the_loop'.tick_orders \in {the_loop.tick_orders, <<>>}
          /\ the_loop.gate # "passed" => the_loop'.gate # "passed"
          /\ ~the_loop.executing => ~the_loop'.executing
          /\ the_loop.pc = "fetching" =>
                 /\ the_loop'.gate = "refused"
                 /\ the_loop'.refused_by = "consecutive_losses"]_vars

\* a tick after the one of the third loss has been refused
C36_Witness ==
    /\ consecutive_losses = 3
    /\ the_loop.gate = "refused"
    /\ the_loop.refused_by = "consecutive_losses"
    /\ the_loop.pc = "sleep"

\* the mean slippage of the most recent (up to 3) records is above 0.003
SlippageTripped ==
    /\ trades # <<>>
    /\ MeanSlippageAbove(trades, Smaller(3, Len(trades)))

\* C37: once the mean slippage of the most recent records exceeds 0.003 no
\* step appends a record, and every step in which the gate is evaluated with
\* the balance refuses the tick.
C37_SlippageBreakerLatches ==
    [][SlippageTripped =>
          /\ trades' = trades
          /\ the_loop.gate # "passed" => the_loop'.gate # "passed"
          /\ the_loop.pc = "gate_balance" => the_loop'.gate = "refused"]_vars

\* the slippage gate has refused a tick that began at least 300 seconds
\* after the last trade
C37_Witness ==
    /\ SlippageTripped
    /\ the_loop.gate = "refused"
    /\ the_loop.refused_by = "slippage"
    /\ opp_age = 300

(***************************************************************************)
(* Properties of the last opportunity (under SpecSession).                 *)
(***************************************************************************)
\* the session of the tick is a quiet one and no opportunity was observed in
\* the last 300 seconds
StaleInQuietSession ==
    /\ market_session \in QuietSessions
    /\ opp_age = Never \/ opp_age >= 300

\* C38: last_opportunity_time is assigned only in the step in which the gate
\* passed and the search found a cycle; from a state of a quiet session
\* without an opportunity in the last 300 seconds no step searches, places
\* an order, executes or records a trade or assigns last_opportunity_time,
\* every gate evaluation refuses, and the next state is again such a state
\* unless the session has become a liquid one.
C38_StaleUntilLiquid ==
    [][/\ (opp_age' = 0 /\ opp_age # 0) =>
              /\ the_loop.pc = "gate_balance"
              /\ the_loop'.gate = "passed"
              /\ the_loop'.best_cycle # NoCycle
       /\ StaleInQuietSession =>
              /\ opp_age' = opp_age
              /\ trades' = trades
              /\ the_loop'.search_min_profit = <<>>
              /\ the_loop'.tick_orders = <<>>
              /\ ~the_loop'.executing
              /\ the_loop'.gate # "passed"
              /\ the_loop.pc = "gate_balance" => the_loop'.gate = "refused"
              /\ StaleInQuietSession' \/ market_session' \in LiquidSessions
      ]_vars

\* a low_liquidity tick is refused for the session: the last opportunity,
\* which led to a trade, is 300 seconds old or older
C38_Witness ==
    /\ market_session = "low_liquidity"
    /\ opp_age = 300
    /\ trades # <<>>
    /\ the_loop.gate = "refused"
    /\ the_loop.refused_by = "session"

(***************************************************************************)
(* Properties of the cycle chosen in a tick (under SpecAccounts).          *)
(***************************************************************************)
\* the cycles the searches of the tick return over all monitored start
\* currencies, for an iteration order of the currencies
FoundInTick(order) ==
    LET cycles == search_from(1, the_loop.search_books[1],
                              the_loop.search_books[2],
                              the_loop.search_min_profit[1], order)
    IN  {cycles[i] : i \in DOMAIN cycles}

\* C39: a tick executes or simulates at most one cycle: it appends at most
\* one record, every order it places is a leg of its best cycle, and a
\* record it appends carries the expected profit of that cycle; the best
\* cycle is one of the cycles found in the tick's snapshot and none of them
\* has a larger effective_profit.
C39_BestCycleOnly ==
    /\ the_loop.tick_records <= 1
    /\ the_loop.best_cycle = NoCycle =>
           /\ the_loop.tick_orders = <<>>
           /\ the_loop.tick_records = 0
    /\ the_loop.best_cycle # NoCycle =>
           /\ Len(the_loop.tick_orders) <= Len(the_loop.best_cycle.pairs)
           /\ \A i \in DOMAIN the_loop.tick_orders :
                  the_loop.tick_orders[i][1] = the_loop.best_cycle.pairs[i]
           /\ the_loop.tick_records = 1 =>
                  LastTrade(trades).expected_profit =
                      the_loop.best_cycle.effective_profit
           /\ \E order \in SearchOrders(currencies_of(the_loop.search_books[1])) :
                  /\ the_loop.best_cycle \in FoundInTick(order)
                  /\ \A c \in FoundInTick(order) :
                         RLe(c.effective_profit,
                             the_loop.best_cycle.effective_profit)

\* a real execution of the best of several cycles of different profit has
\* completed
C39_Witness ==
    /\ the_loop.best_cycle # NoCycle
    /\ the_loop.tick_records = 1
    /\ Len(the_loop.tick_orders) = Len(the_loop.best_cycle.pairs)
    /\ \E order \in SearchOrders(currencies_of(the_loop.search_books[1])) :
          \E c \in FoundInTick(order) :
             RLt(c.effective_profit, the_loop.best_cycle.effective_profit)

(***************************************************************************)
(* Properties of the shutdown (under SpecAccounts).                        *)
(***************************************************************************)
\* C25: when run() has returned, by the runtime limit, an interrupt or an
\* exception raised in a tick, save_data has been called exactly once,
\* whatever the starting balance.
C25_LedgerFlushedOnExit ==
    the_loop.pc = "stopped" => saved = 1

\* run() has ended on an account that started with a balance of 0, and
\* save_data was not called
C25_Witness ==
    /\ the_loop.pc = "stopped"
    /\ starting_balance = 0
    /\ saved = 0

(***************************************************************************)
(* Properties of the lock (under SpecMT, two loops).                        *)
(***************************************************************************)
Executing == {t \in Loops : loop[t].executing}

\* C6: at most one loop is executing or simulating a cycle, and that loop
\* holds the lock; no loop begins an execution while another is executing.
C6_OneExecution ==
    /\ Cardinality(Executing) <= 1
    /\ \A t \in Executing : trade_lock = t
    /\ \A t \in Loops : (loop[t].pc = "acquire" /\ Executing # {}) => ~ENABLED Acquire(t, SlippageDraws)

\* one loop is in the middle of a real execution while the other waits for
\* the lock
C6_Witness ==
    \E t, u \in Loops :
        /\ t # u
        /\ loop[t].executing
        /\ loop[t].pc = "leg_order"
        /\ loop[u].pc = "acquire"

====
